---- MODULE Spec2Model ----
\* Verification model of opencode-graphiti: the stateful (MCP) transport client
\* with its lazily negotiated session, the stateless (REST) transport client,
\* the result normaliser / temporal filter, the context composer and the
\* scope facade (the graphiti tool and the chat.message hook).
EXTENDS Integers, Sequences, FiniteSets, TLC

\* ---------------------------------------------------------------- bounds
\* Number of concurrent transport calls (Promise.all fan-outs and overlapping
\* operations on the single event loop).
NumCallers == 2
\* Cap on the wire log of the stateful client: initialize, tools/call and
\* notifications/initialized requests issued.
MaxRequests == 6
\* Longest node list / fact list the backend returns for one group.
MaxNodes == 1
MaxFacts == 1

Callers == 1..NumCallers

\* ------------------------------------------------------ transport layer
\* sessionId / initPromise hold null before the first handshake.
NoSession == 0
NoPromise == 0

\* The facade selects one transport client for the process lifetime.
Transports == {"mcp", "rest"}

\* MCP tools invoked by the public operations that are modelled here:
\* addMemory dereferences the unwrapped result (result.message), getEntityEdge
\* returns it as it is.
Tools == {"add_memory", "get_entity_edge"}

\* The operation each caller runs on the stateful client.
ToolOf(p) == IF p % 2 = 1 THEN "add_memory" ELSE "get_entity_edge"

\* Operations of the stateless client that are modelled here.
RestOps == {"addMemory", "getEpisodes", "searchNodes"}

\* What the server (or the network) does with one tools/call request.
\*   ok            2xx, JSON or event-stream frame with a result object
\*   okNoResult    2xx, a frame with neither result nor error
\*   rpcError      2xx, a frame with a JSON-RPC error field
\*   sseBad        2xx, text/event-stream with no parseable data line
\*   jsonBad       2xx, application/json body that does not parse
\*   http400s      status 400, body text contains "session"
\*   http400       status 400, body text without "session"
\*   http404s      status 404, body text contains "session"
\*   http500       status 500
\*   reject        fetch rejects (network error)
\*   timeout       no answer within TIMEOUT_MS
CallOutcomes == {"ok", "okNoResult", "rpcError", "sseBad", "jsonBad",
                 "http400s", "http400", "http404s", "http500",
                 "reject", "timeout"}

\* What the server does with one REST request.
\*   ok       2xx with a JSON object
\*   okArray  2xx with a JSON array
\*   okNull   2xx with the JSON value null
\*   jsonBad  2xx with a body that does not parse
\*   http     non-2xx
\*   reject   fetch rejects
\*   timeout  no answer within TIMEOUT_MS
RestOutcomes == {"ok", "okArray", "okNull", "jsonBad", "http", "reject",
                 "timeout"}

\* HTTP status of an outcome (0: no HTTP response was received).
HttpStatus(o) ==
  CASE o \in {"ok", "okArray", "okNoResult", "okNull", "rpcError", "sseBad",
             "jsonBad"} -> 200
    [] o \in {"http400s", "http400"} -> 400
    [] o = "http404s" -> 404
    [] o \in {"http500", "http"} -> 500
    [] OTHER -> 0

\* errorText.includes("session")
TextHasSession(o) == o \in {"http400s", "http404s"}

\* response.ok
ResponseOk(o) == HttpStatus(o) >= 200 /\ HttpStatus(o) <= 299

\* Every answer of status 400 taken for a session error.
IsSessionError_Any400(o) == HttpStatus(o) = 400

\* The session-expiry test of callMCPTool.
IsSessionError(o) == HttpStatus(o) = 400 /\ TextHasSession(o)

\* What the server does with an initialize request.
\*   ok         2xx with an mcp-session-id header
\*   okNoToken  2xx without the header (headers.get returns null)
\*   http       non-2xx
\*   reject     fetch rejects
\*   timeout    no answer within TIMEOUT_MS
InitOutcomes == {"ok", "okNoToken", "http", "reject", "timeout"}

\* The notifications/initialized fetch: answered (any status) or rejected.
NotifyOutcomes == {"delivered", "reject"}

VARIABLES
  transport,     \* the transport client the facade selected
  sessionId,     \* GraphitiClient.sessionId: NoSession or a token
  initPromise,   \* GraphitiClient.initPromise: NoPromise or a handshake id
  requestId,     \* module-level request id counter
  hs,            \* handshake id -> state of that initializeSession() run
  pc,            \* caller -> position inside the public operation: "idle",
                 \* "ensured" (ensureSession returned on a held token, the
                 \* await of callMCPTool has not resumed), "awaitInit",
                 \* "awaitCall", "awaitRest", "done"
  tool,          \* caller -> tool (MCP) or operation (REST) it runs
  waitOn,        \* caller -> handshake promise it awaits
  att,           \* caller -> how its tools/call attempts were answered, in order
  res,           \* caller -> result of the public operation
  sent           \* every request put on the wire, in order

tvars == <<transport, sessionId, initPromise, requestId, hs, pc, tool, waitOn,
           att, res, sent>>

HsIds == 1..MaxRequests

\* The transport layer after construction of the clients.
TransportInit ==
  /\ sessionId = NoSession
  /\ initPromise = NoPromise
  /\ requestId = 0
  /\ hs = [h \in HsIds |-> "none"]
  /\ pc = [p \in Callers |-> "idle"]
  /\ tool = [p \in Callers |-> "none"]
  /\ waitOn = [p \in Callers |-> NoPromise]
  /\ att = [p \in Callers |-> <<>>]
  /\ res = [p \in Callers |-> "none"]
  /\ sent = <<>>

\* A request as it goes on the wire. id is the JSON-RPC id (0: none), tok the
\* Mcp-Session-Id header (NoSession: header absent or, on the notification,
\* empty).
Request(id, method, p, t, tok) ==
  [id |-> id, method |-> method, proc |-> p, tool |-> t, tok |-> tok]

\* ensureSession with the session fields holding sid / ip: what the caller
\* does next.
\*   "go"    a session token is held: return at once
\*   "join"  a handshake promise is recorded: await it
\*   "init"  neither: start initializeSession and await it
ensureSession_NoJoin(sid, ip) ==
  IF sid # NoSession THEN "go" ELSE "init"

ensureSession_Always(sid, ip) == "init"

ensureSession(sid, ip) ==
  IF sid # NoSession THEN "go"
  ELSE IF ip # NoPromise THEN "join"
  ELSE "init"

\* this.initPromise = this.initializeSession(): the handshake is recorded.
RecordedPromise_Dropped(h) == NoPromise

RecordedPromise(h) == h

\* this.sessionId = null on a session error, whatever the token is.
ClearedSession_Kept(sid) == sid

ClearedSession(sid) == NoSession

\* this.initPromise = null on a session error.
ClearedPromise_Kept(ip) == ip

ClearedPromise(ip) == NoPromise

\* ++requestId on the module-level counter.
NextRequestId_Stale(r) == r

NextRequestId(r) == r + 1

\* if (this.sessionId) headers["Mcp-Session-Id"] = this.sessionId: the
\* header of a tools/call request built while the token is sid (NoSession:
\* no header).
SessionHeader_Omitted(sid) == NoSession

SessionHeader(sid) == sid

\* callMCPTool after `await this.ensureSession()`: ++requestId, the session
\* header from the token held at that moment (sid), fetch.
SendCall(p, t, sid) ==
  /\ Len(sent) < MaxRequests
  /\ requestId' = NextRequestId(requestId)
  /\ sent' = Append(sent, Request(NextRequestId(requestId), "tools/call", p, t,
                                  SessionHeader(sid)))
  /\ pc' = [pc EXCEPT ![p] = "awaitCall"]
  /\ waitOn' = [waitOn EXCEPT ![p] = NoPromise]

\* The synchronous part of initializeSession: ++requestId, fetch initialize.
\* The handshake is known by the id of its initialize request.
SendInit(p, t) ==
  LET id == NextRequestId(requestId)
  IN /\ Len(sent) < MaxRequests
     /\ requestId' = id
     /\ sent' = Append(sent, Request(id, "initialize", p, t, NoSession))
     /\ hs' = [hs EXCEPT ![id] = "fetch"]
     /\ initPromise' = RecordedPromise(id)
     /\ waitOn' = [waitOn EXCEPT ![p] = id]
     /\ pc' = [pc EXCEPT ![p] = "awaitInit"]

\* Entry of callMCPTool(t) by caller p with the session fields holding
\* sid / ip (the retry enters with both just cleared): the code that runs
\* before `await this.ensureSession()` yields. On a held token nothing is
\* sent yet; the request is built when the await resumes (Proceed).
callMCPTool(p, t, sid, ip) ==
  /\ sessionId' = sid
  /\ CASE ensureSession(sid, ip) = "go" ->
            /\ pc' = [pc EXCEPT ![p] = "ensured"]
            /\ waitOn' = [waitOn EXCEPT ![p] = NoPromise]
            /\ initPromise' = ip
            /\ UNCHANGED <<requestId, sent, hs>>
       [] ensureSession(sid, ip) = "join" ->
            /\ pc' = [pc EXCEPT ![p] = "awaitInit"]
            /\ waitOn' = [waitOn EXCEPT ![p] = ip]
            /\ initPromise' = ip
            /\ UNCHANGED <<requestId, sent, hs>>
       [] OTHER ->
            SendInit(p, t)

\* A public operation of the stateful client starts: its try block calls
\* callMCPTool.
Start(p) ==
  /\ transport = "mcp"
  /\ pc[p] = "idle"
  /\ tool' = [tool EXCEPT ![p] = ToolOf(p)]
  /\ callMCPTool(p, ToolOf(p), sessionId, initPromise)
  /\ UNCHANGED <<transport, att, res>>

\* `await this.ensureSession()` resumes for a caller that found a token:
\* the tools/call request is built from the session token held now, which
\* a session error handled in between may have cleared or a later handshake
\* replaced.
Proceed(p) ==
  /\ pc[p] = "ensured"
  /\ SendCall(p, tool[p], sessionId)
  /\ UNCHANGED <<transport, sessionId, initPromise, hs, tool, att, res>>

\* The initialize fetch of handshake h settles.
InitResponse(h, o) ==
  /\ hs[h] = "fetch"
  /\ IF o = "ok" THEN
        /\ sessionId' = h
        /\ hs' = [hs EXCEPT ![h] = "text"]
     ELSE IF o = "okNoToken" THEN
        /\ sessionId' = NoSession
        /\ hs' = [hs EXCEPT ![h] = "text"]
     ELSE
        /\ hs' = [hs EXCEPT ![h] = "rejected"]
        /\ UNCHANGED sessionId
  /\ UNCHANGED <<transport, initPromise, requestId, pc, tool, waitOn, att, res,
                 sent>>

\* The body of the initialize response has been read: the
\* notifications/initialized request goes out (no request id, no timeout)
\* with the header "Mcp-Session-Id": this.sessionId || "", the token held
\* at that moment.
InitNotify(h) ==
  /\ hs[h] = "text"
  /\ Len(sent) < MaxRequests
  /\ hs' = [hs EXCEPT ![h] = "notify"]
  /\ LET init == sent[CHOOSE i \in DOMAIN sent :
                        sent[i].method = "initialize" /\ sent[i].id = h]
     IN  sent' = Append(sent, Request(0, "notifications/initialized",
                                      init.proc, init.tool, sessionId))
  /\ UNCHANGED <<transport, sessionId, initPromise, requestId, pc, tool,
                 waitOn, att, res>>

\* The notification fetch settles: initializeSession returns or throws.
InitDone(h, o) ==
  /\ hs[h] = "notify"
  /\ hs' = [hs EXCEPT ![h] = IF o = "delivered" THEN "resolved" ELSE "rejected"]
  /\ UNCHANGED <<transport, sessionId, initPromise, requestId, pc, tool,
                 waitOn, att, res, sent>>

\* The catch block of every public operation: a throw of the transport call
\* (or of the code after it) becomes {success: false, error}.
OpCatch_Rethrow == "thrown"

OpCatch == "failure"

\* The awaited handshake resolved: callMCPTool goes on to send the request.
Resume(p) ==
  /\ pc[p] = "awaitInit"
  /\ hs[waitOn[p]] = "resolved"
  /\ SendCall(p, tool[p], sessionId)
  /\ UNCHANGED <<transport, sessionId, initPromise, hs, tool, att, res>>

\* The awaited handshake rejected: ensureSession throws, the operation's
\* catch block returns the failure.
InitFailed(p) ==
  /\ pc[p] = "awaitInit"
  /\ hs[waitOn[p]] = "rejected"
  /\ pc' = [pc EXCEPT ![p] = "done"]
  /\ res' = [res EXCEPT ![p] = OpCatch]
  /\ waitOn' = [waitOn EXCEPT ![p] = NoPromise]
  /\ UNCHANGED <<transport, sessionId, initPromise, requestId, hs, tool, att,
                 sent>>

\* What the public operation returns once the transport call returned the
\* result of outcome o: addMemory reads result.message inside its try block,
\* which throws on an absent result; the REST getEpisodes calls
\* (result || []).map, which throws on a JSON object.
OpReturn(t, o) ==
  IF o \in {"okNoResult", "okNull"} /\ t \in {"add_memory", "addMemory"}
  THEN OpCatch
  ELSE IF o = "ok" /\ t = "getEpisodes" THEN OpCatch
  ELSE "success"

\* callMCPTool after a response that is not a session error.
\* "value": returns the unwrapped result; "throw": throws.
CallResult(o) ==
  IF ~ResponseOk(o) THEN "throw"
  ELSE IF o \in {"sseBad", "jsonBad", "rpcError"} THEN "throw"
  ELSE "value"

\* How an attempt is remembered in att: the session error the client
\* recognises, any other client error whose text references the session, a
\* usable result, or any other failure.
Remembered(o) ==
  IF HttpStatus(o) = 400 /\ TextHasSession(o) THEN "expired"
  ELSE IF HttpStatus(o) >= 400 /\ HttpStatus(o) <= 499 /\ TextHasSession(o)
       THEN "session4xx"
  ELSE IF o \in {"ok", "okNoResult"} THEN o
  ELSE "failed"

\* The tools/call fetch of caller p settles with outcome o.
CallResponse(p, o) ==
  /\ pc[p] = "awaitCall"
  /\ att' = [att EXCEPT ![p] = Append(@, Remembered(o))]
  /\ IF IsSessionError(o) THEN
        /\ callMCPTool(p, tool[p], ClearedSession(sessionId),
                       ClearedPromise(initPromise))
        /\ UNCHANGED <<transport, tool, res>>
     ELSE
        /\ pc' = [pc EXCEPT ![p] = "done"]
        /\ res' = [res EXCEPT ![p] =
                     IF CallResult(o) = "throw" THEN OpCatch
                     ELSE OpReturn(tool[p], o)]
        /\ UNCHANGED <<transport, sessionId, initPromise, requestId, hs, tool,
                       waitOn, sent>>

\* GraphitiRestClient.request after its fetch settled with outcome o.
RestResult(o) ==
  IF ~ResponseOk(o) \/ o = "jsonBad" THEN "throw" ELSE "value"

\* The groupIds argument of a REST operation.
RestGroupIds == {<<>>, <<"">>, <<"g1">>}

\* A public operation of the stateless client starts. searchNodes answers at
\* once without a request, and so does getEpisodes without a first group
\* id (const groupId = groupIds[0]; if (!groupId)); the others call
\* request() inside their try block.
RestStart(p, op, groupIds) ==
  /\ transport = "rest"
  /\ pc[p] = "idle"
  /\ tool' = [tool EXCEPT ![p] = op]
  /\ IF \/ op = "searchNodes"
        \/ /\ op = "getEpisodes"
           /\ (Len(groupIds) = 0 \/ groupIds[1] = "")
     THEN
        /\ pc' = [pc EXCEPT ![p] = "done"]
        /\ res' = [res EXCEPT ![p] = "success"]
        /\ UNCHANGED sent
     ELSE
        /\ pc' = [pc EXCEPT ![p] = "awaitRest"]
        /\ sent' = Append(sent, Request(0, "rest", p, op, NoSession))
        /\ UNCHANGED res
  /\ UNCHANGED <<transport, sessionId, initPromise, requestId, hs, waitOn, att>>

\* The REST fetch of caller p settles with outcome o.
RestResponse(p, o) ==
  /\ pc[p] = "awaitRest"
  /\ pc' = [pc EXCEPT ![p] = "done"]
  /\ res' = [res EXCEPT ![p] =
               IF RestResult(o) = "throw" THEN OpCatch
               ELSE OpReturn(tool[p], o)]
  /\ UNCHANGED <<transport, sessionId, initPromise, requestId, hs, tool,
                 waitOn, att, sent>>

\* ------------------------------------------- normaliser, composer, facade
\* Largest limit argument a caller of the graphiti tool passes.
MaxLimit == 3

Scopes == {"user", "project"}
NoScope == "none"

\* JavaScript null / undefined of a string-valued field.
Null == "null"

\* !x for a string-valued field: null, undefined and "" are falsy.
Falsy(x) == x = Null \/ x = ""

\* x || y
OrElse(x, y) == IF Falsy(x) THEN y ELSE x

\* Display similarities, in hundredths (0.9, 0.85); the REST client sets null.
SimNode == 90
SimFact == 85
SimNull == -1

\* CONFIG.maxProfileItems and the default limit of the search mode.
MaxProfileItems == 5
DefaultLimit == 10

\* What the backend holds: uuids and texts of the i-th node / fact of a group.
NodeUuid == [user |-> <<"un1", "un2", "un3">>, project |-> <<"pn1", "pn2", "pn3">>]
NodeText == [user |-> <<"user node 1", "user node 2", "user node 3">>,
             project |-> <<"project node 1", "project node 2", "project node 3">>]
FactUuid == [user |-> <<"uf1", "uf2", "uf3">>, project |-> <<"pf1", "pf2", "pf3">>]
FactText == [user |-> <<"user fact 1", "user fact 2", "user fact 3">>,
             project |-> <<"project fact 1", "project fact 2", "project fact 3">>]

\* Entity-type labels of a node; invalid_at of a fact as the backend
\* serialises it (null, or a timestamp).
LabelSets == {<<"Preference">>, <<"Requirement">>}
InvalidAts == {Null, "2024-01-01T00:00:00Z"}

\* GraphitiNodeResult / GraphitiFactResult.
NodeAt(s, i, labels) ==
  [uuid |-> NodeUuid[s][i], name |-> NodeText[s][i], summary |-> Null,
   labels |-> labels]

FactAt(s, i, inv) ==
  [uuid |-> FactUuid[s][i], name |-> "RELATES_TO", fact |-> FactText[s][i],
   invalid_at |-> inv, valid_at |-> Null]

NodeLists(s) ==
  UNION {{[i \in 1..n |-> NodeAt(s, i, f[i])] : f \in [1..n -> LabelSets]}
         : n \in 0..MaxNodes}

FactLists(s) ==
  UNION {{[i \in 1..n |-> FactAt(s, i, f[i])] : f \in [1..n -> InvalidAts]}
         : n \in 0..MaxFacts}

\* The limit argument: absent, or a number.
Limits == {[given |-> FALSE, n |-> 0]} \cup {[given |-> TRUE, n |-> k] : k \in 0..MaxLimit}

\* CONFIG.injectProfile / injectProjectMemories / injectRelevantMemories,
\* with maxProfileItems at its default.
Configs == [injectProfile : BOOLEAN, injectProjectMemories : BOOLEAN,
            injectRelevantMemories : BOOLEAN, maxProfileItems : {MaxProfileItems}]

VARIABLES
  nodes,   \* group -> nodes the backend returns for a node search
  facts,   \* group -> facts the backend returns for a fact search
  down,    \* backend calls <<group, kind>> that fail (any transport failure)
  mcpUrl,  \* GRAPHITI_MCP_URL as resolved from file, environment, default
  phase,   \* "off": facade not modelled; "ready": before the request;
           \* "awaiting": the handler is at its await; "done"
  req,     \* the request the facade or the client received
  out,     \* what it returned
  calls    \* the backend calls <<group, kind>> the operation made

dvars == <<nodes, facts, down, mcpUrl, phase, req, out, calls>>

\* What an operation leaves alone: the backend and the configuration.
world == <<nodes, facts, down, mcpUrl>>

\* GRAPHITI_MCP_URL: the default, or an empty string from file or environment.
DefaultMcpUrl == "http://localhost:8000/mcp/"
McpUrls == {"", DefaultMcpUrl}

\* isConfigured(): !!GRAPHITI_MCP_URL
isConfigured_Always(url) == TRUE

isConfigured(url) == ~Falsy(url)

NoReq == [op |-> "none"]
NoOut == [op |-> "none"]

\* array.map(F)
Map(F(_), s) == [i \in 1..Len(s) |-> F(s[i])]

Min(a, b) == IF a < b THEN a ELSE b
Max(a, b) == IF a > b THEN a ELSE b

\* array.slice(0, e)
Slice(s, e) ==
  SubSeq(s, 1, IF e < 0 THEN Max(Len(s) + e, 0) ELSE Min(e, Len(s)))

\* searchNodes of the selected client: the REST client answers an empty
\* list without a request; the stateful client's catch block turns a failed
\* call into {success: false, nodes: []}. requests counts the backend
\* requests the call issued.
searchNodes_Backend(tr, s) ==
  IF <<s, "nodes">> \in down
  THEN [success |-> FALSE, nodes |-> <<>>, total |-> 0, requests |-> 1]
  ELSE [success |-> TRUE, nodes |-> nodes[s], total |-> Len(nodes[s]),
        requests |-> 1]

searchNodes(tr, s) ==
  IF tr = "rest"
  THEN [success |-> TRUE, nodes |-> <<>>, total |-> 0, requests |-> 0]
  ELSE IF <<s, "nodes">> \in down
  THEN [success |-> FALSE, nodes |-> <<>>, total |-> 0, requests |-> 1]
  ELSE [success |-> TRUE, nodes |-> nodes[s], total |-> Len(nodes[s]),
        requests |-> 1]

\* searchFacts (and the REST client's getMemory): a failed call becomes
\* {success: false, facts: []}.
searchFacts(tr, s) ==
  IF <<s, "facts">> \in down THEN [success |-> FALSE, facts |-> <<>>]
  ELSE [success |-> TRUE, facts |-> facts[s]]

getMemory(tr, s) == searchFacts(tr, s)

\* (factsResult.facts || []).filter((fact) => !fact.invalid_at)
IsValidFact(f) == Falsy(f.invalid_at)

FilterValid_None(fs) == fs

FilterValid(fs) == SelectSeq(fs, IsValidFact)

\* node -> MemoryResult
NodeResult(n) ==
  [id |-> n.uuid, memory |-> OrElse(n.summary, n.name), similarity |-> SimNode,
   type |-> "node", labels |-> n.labels, validAt |-> Null]

\* fact.fact || fact.name || ""
FactContent(f) == OrElse(f.fact, OrElse(f.name, ""))

\* Both branches return the content.
formatFactWithRelationship(f) == FactContent(f)

\* fact -> MemoryResult of the stateful client
FactResult(f) ==
  [id |-> OrElse(f.uuid, "fact-now"),
   memory |-> formatFactWithRelationship(f), similarity |-> SimFact,
   type |-> "fact", labels |-> <<>>, validAt |-> f.valid_at]

\* fact -> MemoryResult of the REST client
RestFactResult(f) == [FactResult(f) EXCEPT !.similarity = SimNull]

\* The results that searchMemories builds from the node list and the fact
\* list it was answered: the stateful client maps the nodes, then the valid
\* facts; the REST client maps the valid facts.
MemoryResults(tr, nodeList, factList) ==
  LET validFacts == FilterValid(factList)
  IN IF tr = "mcp"
     THEN Map(NodeResult, nodeList) \o Map(FactResult, validFacts)
     ELSE Map(RestFactResult, validFacts)

\* searchMemories(query, groupId, {messages}) of the selected client.
searchMemories(tr, s, withMessages) ==
  IF tr = "mcp" THEN
    LET nodesResult == searchNodes(tr, s)
        factsResult == searchFacts(tr, s)
    IN [success |-> TRUE,
        results |-> MemoryResults(tr, nodesResult.nodes, factsResult.facts)]
  ELSE
    LET factsResult == IF withMessages THEN getMemory(tr, s) ELSE searchFacts(tr, s)
    IN [success |-> TRUE, results |-> MemoryResults(tr, <<>>, factsResult.facts)]

\* A node counts as a preference by its first label only.
IsPreference_First(n) == Len(n.labels) > 0 /\ n.labels[1] = "Preference"

\* node.labels?.includes("Preference")
IsPreference(n) == \E i \in DOMAIN n.labels : n.labels[i] = "Preference"

NotPreference(n) == ~IsPreference(n)
NodeContent(n) == OrElse(n.summary, n.name)
IsInvalidFact(f) == ~IsValidFact(f)

\* The profile that the stateful getProfile builds from the nodes returned:
\* staticFacts and dynamicFacts, each cut to n entries.
NodeProfile(nodeList, n) ==
  [static |-> Slice(Map(NodeContent, SelectSeq(nodeList, IsPreference)), n),
   dynamic |-> Slice(Map(NodeContent, SelectSeq(nodeList, NotPreference)), n)]

\* getProfile(userGroupId, query) of the selected client.
getProfile(tr, s) ==
  IF tr = "mcp" THEN
    LET ns == searchNodes(tr, s).nodes
    IN [success |-> TRUE,
        static |-> NodeProfile(ns, MaxProfileItems).static,
        dynamic |-> NodeProfile(ns, MaxProfileItems).dynamic]
  ELSE
    LET fs == searchFacts(tr, s).facts
    IN [success |-> TRUE,
        static |-> Slice(Map(FactContent, SelectSeq(fs, IsValidFact)), MaxProfileItems),
        dynamic |-> Slice(Map(FactContent, SelectSeq(fs, IsInvalidFact)), MaxProfileItems)]

\* A number in arithmetic: null counts as 0.
Num(x) == IF x = SimNull THEN 0 ELSE x

\* [...].sort((a, b) => b.similarity - a.similarity): a stable sort.
RECURSIVE InsertBySimilarity(_, _)
InsertBySimilarity(x, s) ==
  IF s = <<>> THEN <<x>>
  ELSE IF Num(Head(s).similarity) - Num(x.similarity) < 0
       THEN <<x>> \o s
       ELSE <<Head(s)>> \o InsertBySimilarity(x, Tail(s))

RECURSIVE SortBySimilarity(_)
SortBySimilarity(s) ==
  IF s = <<>> THEN <<>>
  ELSE InsertBySimilarity(s[Len(s)], SortBySimilarity(SubSeq(s, 1, Len(s) - 1)))

\* args.limit || 10
EffectiveLimit(limit) ==
  IF ~limit.given \/ limit.n = 0 THEN DefaultLimit ELSE limit.n

TagUser(r) ==
  [id |-> r.id, content |-> r.memory, similarity |-> Num(r.similarity),
   scope |-> "user", type |-> r.type]
TagProject(r) == [TagUser(r) EXCEPT !.scope = "project"]
Untagged(r) == [TagUser(r) EXCEPT !.scope = NoScope]

\* {success: false, error: result.error || "Failed to search memories"}
Failure ==
  [success |-> FALSE, error |-> "Failed to search memories", count |-> 0,
   results |-> <<>>]

\* The answer of execute when isConfigured() is false, for every mode.
NotConfigured ==
  [success |-> FALSE, error |-> "GRAPHITI_MCP_URL not set", count |-> 0,
   results |-> <<>>, static |-> <<>>, dynamic |-> <<>>]

\* formatSearchResults
formatSearchResults(result, limit) ==
  [success |-> TRUE, error |-> "", count |-> Len(result.results),
   results |-> Map(Untagged, Slice(result.results, EffectiveLimit(limit)))]

\* The scope-less search once Promise.all has delivered [userResult,
\* projectResult]: failure if either failed, else the tagged, sorted and
\* truncated merge.
CombinedSearch(userResult, projectResult, limit) ==
  LET combined == SortBySimilarity(Map(TagUser, userResult.results)
                                     \o Map(TagProject, projectResult.results))
  IN IF ~userResult.success \/ ~projectResult.success THEN Failure
     ELSE [success |-> TRUE, error |-> "", count |-> Len(combined),
           results |-> Slice(combined, EffectiveLimit(limit))]

\* The search mode of the graphiti tool (a query is given).
ToolSearch(tr, scope, limit) ==
  IF scope \in Scopes THEN
    LET result == searchMemories(tr, scope, FALSE)
    IN IF ~result.success THEN Failure ELSE formatSearchResults(result, limit)
  ELSE CombinedSearch(searchMemories(tr, "user", FALSE),
                      searchMemories(tr, "project", FALSE), limit)

\* The profile mode of the graphiti tool.
ToolProfile(tr) ==
  LET result == getProfile(tr, "user")
  IN IF ~result.success
     THEN [success |-> FALSE, error |-> "Failed to fetch profile",
           static |-> <<>>, dynamic |-> <<>>]
     ELSE [success |-> TRUE, error |-> "", static |-> result.static,
           dynamic |-> result.dynamic]

\* The help mode of the graphiti tool: the usage guide.
ToolHelp == [success |-> TRUE, error |-> ""]

\* An absent scope taken for the user scope.
ScopeOrProject_DefaultUser(scope) ==
  IF scope = NoScope \/ Falsy(scope) THEN "user" ELSE scope

\* const scope = args.scope || "project" (an absent scope is NoScope)
ScopeOrProject(scope) == IF scope = NoScope \/ Falsy(scope) THEN "project" ELSE scope

\* scope === "user" ? tags.user : tags.project, a group being named by the
\* tag that holds its id
GroupFor(scope) == IF scope = "user" THEN "user" ELSE "project"

\* The backend is unreachable for a group: every search the client makes
\* on it fails, and so does a write.
GroupDown(tr, g) ==
  (IF tr = "mcp" THEN {<<g, "nodes">>, <<g, "facts">>} ELSE {<<g, "facts">>})
    \subseteq down

\* isFullyPrivate(content) of services/privacy.js, which index.ts imports
\* and src/ does not hold: the contents here are plain text and one text
\* that is a single <private> block, the fully private one.
isFullyPrivate(content) == content = "<private>secret</private>"

\* mode add: the content guard, the privacy guard, then the write of the
\* content (sanitized by stripPrivateContent) to the group of the scope.
ToolAdd(tr, args) ==
  LET scope == ScopeOrProject(args.scope)
      groupId == GroupFor(scope)
  IN IF Falsy(args.content)
     THEN [success |-> FALSE, error |-> "content parameter is required for add mode",
           scope |-> NoScope]
     ELSE IF isFullyPrivate(args.content)
     THEN [success |-> FALSE, error |-> "Cannot store fully private content",
           scope |-> NoScope]
     ELSE IF GroupDown(tr, groupId)
     THEN [success |-> FALSE, error |-> "Failed to add memory", scope |-> NoScope]
     ELSE [success |-> TRUE, error |-> "", scope |-> scope]

\* mode list: getEpisodes answers a failure with no episodes, and the
\* backend of this model holds no episode.
ToolList(args) ==
  [success |-> TRUE, error |-> "", scope |-> ScopeOrProject(args.scope),
   count |-> 0, memories |-> <<>>]

GraphFact(f) == [id |-> f.uuid, fact |-> OrElse(f.fact, f.name)]

\* Every fact counted as superseded.
GraphInvalidFacts_All(factList) == factList

\* validFacts and invalidFacts of the graph mode: the two filters over the
\* facts returned.
GraphValidFacts(factList) == SelectSeq(factList, IsValidFact)
GraphInvalidFacts(factList) == SelectSeq(factList, IsInvalidFact)

\* relationships: {valid, superseded}
GraphRelationships(factList) ==
  [valid |-> Map(GraphFact, GraphValidFacts(factList)),
   superseded |-> Map(GraphFact, GraphInvalidFacts(factList))]

\* mode graph
ToolGraph(tr, args) ==
  LET groupId == GroupFor(ScopeOrProject(args.scope))
      factsResult == searchFacts(tr, groupId)
  IN IF Falsy(args.centerNodeId)
     THEN [success |-> FALSE, error |-> "centerNodeId is required for graph mode",
           valid |-> <<>>, superseded |-> <<>>]
     ELSE IF ~factsResult.success
     THEN [success |-> FALSE, error |-> "Failed to explore graph",
           valid |-> <<>>, superseded |-> <<>>]
     ELSE [success |-> TRUE, error |-> "",
           valid |-> GraphRelationships(factsResult.facts).valid,
           superseded |-> GraphRelationships(factsResult.facts).superseded]

\* deleteMemory(memoryId) = deleteEpisode(uuid): the request carries the
\* uuid and no group id, so the backend removes the episode of that uuid
\* from whichever group holds it (owner; NoScope: no such episode, the call
\* fails).
deleteMemory(memoryId, owner) ==
  [success |-> owner # NoScope, removedFrom |-> owner]

\* mode forget: the scope goes into the message only.
ToolForget(args, owner) ==
  LET scope == ScopeOrProject(args.scope)
      result == deleteMemory(args.memoryId, owner)
  IN IF Falsy(args.memoryId)
     THEN [success |-> FALSE, error |-> "memoryId parameter is required for forget mode",
           scope |-> NoScope, removedFrom |-> NoScope]
     ELSE IF ~result.success
     THEN [success |-> FALSE, error |-> "Failed to delete memory",
           scope |-> NoScope, removedFrom |-> NoScope]
     ELSE [success |-> TRUE, error |-> "", scope |-> scope,
           removedFrom |-> result.removedFrom]

\* mode status: the result of getStatus() as it is. The status request
\* fails when the backend is unreachable, that is when the calls on every
\* group fail.
ToolStatus(tr) ==
  IF GroupDown(tr, "user") /\ GroupDown(tr, "project")
  THEN [success |-> FALSE, error |-> "status request failed"]
  ELSE [success |-> TRUE, error |-> ""]

\* execute(args) of the graphiti tool: the configuration guard, then the
\* mode (const mode = args.mode || "help"). owner is the group in which the
\* backend holds the episode args.memoryId, NoScope when it holds none or
\* the delete request fails; only the forget mode asks for it.
execute(url, tr, args, owner) ==
  IF ~isConfigured(url) THEN NotConfigured
  ELSE CASE OrElse(args.mode, "help") = "help" -> ToolHelp
         [] args.mode = "status" -> ToolStatus(tr)
         [] args.mode = "search" -> ToolSearch(tr, args.scope, args.limit)
         [] args.mode = "profile" -> ToolProfile(tr)
         [] args.mode = "add" -> ToolAdd(tr, args)
         [] args.mode = "list" -> ToolList(args)
         [] args.mode = "graph" -> ToolGraph(tr, args)
         [] args.mode = "forget" -> ToolForget(args, owner)
         \* default: {success: false, error: `Unknown mode: ${mode}`}
         [] OTHER -> [success |-> FALSE, error |-> "Unknown mode"]

\* The backend calls of searchMemories and getProfile for group s.
MemoryCalls(tr, s) ==
  IF tr = "mcp" THEN {<<s, "nodes">>, <<s, "facts">>} ELSE {<<s, "facts">>}

ProfileCalls(tr, s) ==
  IF tr = "mcp" THEN {<<s, "nodes">>} ELSE {<<s, "facts">>}

\* The backend calls execute(args) makes. The status request and the delete
\* request of the forget mode carry no group id.
executeCalls(url, tr, args) ==
  IF ~isConfigured(url) THEN {}
  ELSE CASE args.mode = "status" -> {<<NoScope, "status">>}
         [] args.mode = "forget" ->
              IF Falsy(args.memoryId) THEN {} ELSE {<<NoScope, "delete">>}
         [] args.mode = "search" ->
              IF args.scope \in Scopes THEN MemoryCalls(tr, args.scope)
              ELSE MemoryCalls(tr, "user") \cup MemoryCalls(tr, "project")
         [] args.mode = "profile" -> ProfileCalls(tr, "user")
         [] args.mode = "add" ->
              IF Falsy(args.content) \/ isFullyPrivate(args.content) THEN {}
              ELSE {<<GroupFor(ScopeOrProject(args.scope)), "add">>}
         [] args.mode = "list" ->
              {<<GroupFor(ScopeOrProject(args.scope)), "episodes">>}
         [] args.mode = "graph" ->
              IF Falsy(args.centerNodeId) THEN {}
              ELSE {<<GroupFor(ScopeOrProject(args.scope)), "facts">>}
         [] OTHER -> {}

\* One line of the composed context.
Line(kind, text, tags) == [kind |-> kind, text |-> text, tags |-> tags]
ProfileLine(fact) == Line("profile", fact, <<>>)

Tag(tag, val) == [tag |-> tag, val |-> val]
HasTag(t) == t.tag # "none"

\* Timestamps of a validAt field, and the time between each and now
\* (now.getTime() - validDate.getTime()), counted in hours.
Timestamps ==
  {"now+2d", "now-0d", "now-24h", "now-36h", "now-48h", "now-5d", "now-7d12h",
   "now-8d", "now-20d", "now-30d12h", "now-31d", "now-90d"}

HoursSince(ts) ==
  CASE ts = "now+2d" -> -48
    [] ts = "now-0d" -> 0
    [] ts = "now-24h" -> 24
    [] ts = "now-36h" -> 36
    [] ts = "now-48h" -> 48
    [] ts = "now-5d" -> 5 * 24
    [] ts = "now-7d12h" -> 7 * 24 + 12
    [] ts = "now-8d" -> 8 * 24
    [] ts = "now-20d" -> 20 * 24
    [] ts = "now-30d12h" -> 30 * 24 + 12
    [] ts = "now-31d" -> 31 * 24
    [] OTHER -> 90 * 24

\* Math.round in place of Math.floor.
DaysSince_Rounded(ts) == (HoursSince(ts) + 12) \div 24

\* daysDiff: Math.floor of the difference over one day.
DaysSince(ts) == HoursSince(ts) \div 24

\* formatTemporalTag: "" without validAt, else [recent], [this week],
\* [this month] or [<days>d ago].
formatTemporalTag(mem) ==
  IF Falsy(mem.validAt) THEN Tag("none", "")
  ELSE LET daysDiff == DaysSince(mem.validAt)
       IN IF daysDiff <= 1 THEN Tag("temporal", [text |-> "recent", days |-> 0])
          ELSE IF daysDiff <= 7 THEN Tag("temporal", [text |-> "this week", days |-> 0])
          ELSE IF daysDiff <= 30 THEN Tag("temporal", [text |-> "this month", days |-> 0])
          ELSE Tag("temporal", [text |-> "d ago", days |-> daysDiff])

TypeTag(mem) ==
  IF Falsy(mem.type) THEN Tag("none", "") ELSE Tag("type", mem.type)

LabelTag(mem) ==
  IF Len(mem.labels) > 0 THEN Tag("labels", mem.labels) ELSE Tag("none", "")

SimilarityTag(mem) ==
  IF mem.similarity # SimNull THEN Tag("similarity", mem.similarity)
  ELSE Tag("none", "")

\* [typeTag, labelTag, temporalTag, similarityTag]
MemoryTags_Swapped(mem) ==
  <<TypeTag(mem), formatTemporalTag(mem), LabelTag(mem), SimilarityTag(mem)>>

MemoryTags(mem) ==
  <<TypeTag(mem), LabelTag(mem), formatTemporalTag(mem), SimilarityTag(mem)>>

\* formatMemoryLine: "- " tags " " content, the tags being the non-empty
\* ones.
formatMemoryLine(mem) ==
  Line("memory", OrElse(mem.memory, ""), SelectSeq(MemoryTags(mem), HasTag))

\* The lines of one profile section: the first n facts, one line each.
ProfileLines_All(list, n) == Map(ProfileLine, list)

ProfileLines(list, n) == Map(ProfileLine, Slice(list, n))

\* The parts that formatContextForPrompt collects: the header, then the
\* sections.
ContextParts(cfg, profile, userResults, projectResults) ==
  LET header == <<Line("header", "[GRAPHITI MEMORY - Temporal Knowledge Graph]", <<>>)>>
      static ==
        IF cfg.injectProfile /\ profile.present /\ Len(profile.static) > 0
        THEN <<Line("title", "User Preferences (stable):", <<>>)>>
               \o ProfileLines(profile.static, cfg.maxProfileItems)
        ELSE <<>>
      dynamic ==
        IF cfg.injectProfile /\ profile.present /\ Len(profile.dynamic) > 0
        THEN <<Line("title", "Recent Context (dynamic):", <<>>)>>
               \o ProfileLines(profile.dynamic, cfg.maxProfileItems)
        ELSE <<>>
      project ==
        IF cfg.injectProjectMemories /\ Len(projectResults) > 0
        THEN <<Line("title", "Project Knowledge (entities & facts):", <<>>)>>
               \o Map(formatMemoryLine, projectResults)
        ELSE <<>>
      user ==
        IF cfg.injectRelevantMemories /\ Len(userResults) > 0
        THEN <<Line("title", "Relevant Memories:", <<>>)>>
               \o Map(formatMemoryLine, userResults)
        ELSE <<>>
  IN header \o static \o dynamic \o project \o user

formatContextForPrompt_NoCheck(cfg, profile, userResults, projectResults) ==
  ContextParts(cfg, profile, userResults, projectResults)

\* formatContextForPrompt(profile, userMemories, projectMemories): the lines
\* of the returned block (<<>>: the empty string).
formatContextForPrompt(cfg, profile, userResults, projectResults) ==
  LET parts == ContextParts(cfg, profile, userResults, projectResults)
  IN IF Len(parts) = 1 THEN <<>> ELSE parts

\* The context had the client operations rejected on a failed call: one
\* rejection fails Promise.all and nothing is composed.
ChatContext_AllOrNothing(tr, cfg) ==
  IF down # {} THEN <<>>
  ELSE LET p == getProfile(tr, "user")
       IN formatContextForPrompt(cfg,
            [present |-> TRUE, static |-> p.static, dynamic |-> p.dynamic],
            searchMemories(tr, "user", FALSE).results,
            searchMemories(tr, "project", FALSE).results)

\* The chat.message hook on the first message of a session: the context it
\* composes (and injects when non-empty).
ChatContext(tr, cfg) ==
  LET profileResult == getProfile(tr, "user")
      userMemoriesResult == searchMemories(tr, "user", FALSE)
      projectMemoriesResult == searchMemories(tr, "project", FALSE)
      profile == IF profileResult.success
                 THEN [present |-> TRUE, static |-> profileResult.static,
                       dynamic |-> profileResult.dynamic]
                 ELSE [present |-> FALSE, static |-> <<>>, dynamic |-> <<>>]
      userResults == IF userMemoriesResult.success
                     THEN userMemoriesResult.results ELSE <<>>
      projectResults == IF projectMemoriesResult.success
                        THEN projectMemoriesResult.results ELSE <<>>
  IN formatContextForPrompt(cfg, profile, userResults, projectResults)

\* graphiti tool, mode search.
Search(scope, limit) ==
  LET args == [mode |-> "search", scope |-> scope, limit |-> limit]
  IN /\ phase = "ready"
     /\ phase' = "done"
     /\ req' = [op |-> "search", scope |-> scope, limit |-> limit]
     /\ out' = execute(mcpUrl, transport, args, NoScope)
     /\ calls' = executeCalls(mcpUrl, transport, args)
     /\ UNCHANGED world

\* A direct searchMemories call on the selected client.
SearchMemories(s, withMessages) ==
  /\ phase = "ready"
  /\ phase' = "done"
  /\ req' = [op |-> "searchMemories", scope |-> s, messages |-> withMessages]
  /\ out' = searchMemories(transport, s, withMessages)
  /\ calls' = MemoryCalls(transport, s)
  /\ UNCHANGED world

\* A direct searchNodes call on the selected client.
SearchNodes(s) ==
  /\ phase = "ready"
  /\ phase' = "done"
  /\ req' = [op |-> "searchNodes", scope |-> s]
  /\ out' = searchNodes(transport, s)
  /\ calls' = IF transport = "mcp" THEN {<<s, "nodes">>} ELSE {}
  /\ UNCHANGED world

\* graphiti tool, mode profile.
Profile ==
  LET args == [mode |-> "profile"]
  IN /\ phase = "ready"
     /\ phase' = "done"
     /\ req' = [op |-> "profile"]
     /\ out' = execute(mcpUrl, transport, args, NoScope)
     /\ calls' = executeCalls(mcpUrl, transport, args)
     /\ UNCHANGED world

\* graphiti tool, modes add, list and graph: the modes that turn a scope
\* into a group id. given: whether the mode's required argument is there;
\* private: whether the content given to the add mode is fully private.
ScopedModes == {"add", "list", "graph"}

Scoped(mode, scope, given, private) ==
  LET args == [mode |-> mode, scope |-> scope,
               content |-> IF ~given THEN Null
                           ELSE IF private THEN "<private>secret</private>"
                           ELSE "text",
               centerNodeId |-> IF given THEN "node-1" ELSE Null]
  IN /\ phase = "ready"
     /\ private => (mode = "add" /\ given)
     /\ phase' = "done"
     /\ req' = [op |-> mode, scope |-> scope, given |-> given,
                private |-> private]
     /\ out' = execute(mcpUrl, transport, args, NoScope)
     /\ calls' = executeCalls(mcpUrl, transport, args)
     /\ UNCHANGED world

\* graphiti tool, mode help (also the mode when none is given).
Help ==
  LET args == [mode |-> "help"]
  IN /\ phase = "ready"
     /\ phase' = "done"
     /\ req' = [op |-> "help"]
     /\ out' = execute(mcpUrl, transport, args, NoScope)
     /\ calls' = executeCalls(mcpUrl, transport, args)
     /\ UNCHANGED world

\* graphiti tool, the modes that take no scope into a group id: status,
\* forget (with or without a memory id), a mode outside the enumeration,
\* and no mode at all.
DispatchModes == {"status", "forget", "bogus", Null}
MemoryIds == {Null, "ep-1"}

Dispatch(mode, memoryId, owner) ==
  LET args == [mode |-> mode, scope |-> NoScope, memoryId |-> memoryId]
  IN /\ phase = "ready"
     /\ (mode # "forget" \/ Falsy(memoryId)) => owner = NoScope
     /\ phase' = "done"
     /\ req' = [op |-> "dispatch", mode |-> mode, memoryId |-> memoryId,
                owner |-> owner]
     /\ out' = execute(mcpUrl, transport, args, owner)
     /\ calls' = executeCalls(mcpUrl, transport, args)
     /\ UNCHANGED world

\* chat.message with a text message, first message of its session, under
\* configuration cfg: the context composed and the parts appended.
chatMessage(url, tr, cfg) ==
  IF ~isConfigured(url) THEN [context |-> <<>>, parts |-> <<>>]
  ELSE LET memoryContext == ChatContext(tr, cfg)
       IN [context |-> memoryContext,
           parts |-> IF memoryContext = <<>> THEN <<>> ELSE <<"context">>]

chatMessageCalls(url, tr) ==
  IF ~isConfigured(url) THEN {}
  ELSE ProfileCalls(tr, "user") \cup MemoryCalls(tr, "user")
         \cup MemoryCalls(tr, "project")

\* ------------------------------------------- chat.message events
\* Number of chat.message events and of agent sessions they belong to.
NumEvents == 3
NumSessions == 2

Events == 1..NumEvents
Sessions == 1..NumSessions

\* What the message of an event holds: no text part, only blank text, text,
\* or text with a memory keyword.
Messages == {"none", "blank", "plain", "remember"}

\* CONFIG as the defaults resolve it.
DefaultConfig ==
  [injectProfile |-> TRUE, injectProjectMemories |-> TRUE,
   injectRelevantMemories |-> TRUE, maxProfileItems |-> MaxProfileItems]

VARIABLES
  injectedSessions,  \* the plugin's set of sessions already served
  ev,                \* event -> state of its chat.message handler run
  fileConfig,        \* groupIdPrefix of the configuration file on disk now
  tags,              \* const tags = getTags(directory) of the running plugin
  resolved,          \* log: the group ids resolved so far, over all starts
  used               \* log: the group ids the facade operations handed over

\* The group ids of the plugin: what is on disk, what was resolved, what
\* was used.
pvars == <<fileConfig, tags, resolved, used>>

cvars == <<injectedSessions, ev, pvars>>

\* No process has started.
NoTags == [user |-> Null, project |-> Null]

\* pc: "idle" (not delivered), "awaiting" (inside Promise.all), "done".
\* parts: output.parts; retrieved: the three client calls were issued.
IdleEvent ==
  [pc |-> "idle", session |-> 0, msg |-> "none", parts |-> <<>>,
   retrieved |-> FALSE]

ChatIdle ==
  /\ injectedSessions = {}
  /\ ev = [e \in Events |-> IdleEvent]
  /\ fileConfig = Null
  /\ tags = NoTags
  /\ resolved = <<>>
  /\ used = <<>>

\* output.parts as the host passes it.
MessageParts(msg) == IF msg = "none" THEN <<"file">> ELSE <<"text">>

\* detectMemoryKeyword(userMessage)
detectMemoryKeyword(msg) == msg = "remember"

\* const isFirstMessage = !injectedSessions.has(input.sessionID)
isFirstMessage_Always(sid, injected) == TRUE

isFirstMessage(sid, injected) == sid \notin injected

\* chat.message is called for event e of session sid: the handler runs up
\* to its first await (or to its end).
ChatArrive(e, sid, msg) ==
  LET parts0 == MessageParts(msg)
      parts1 == IF detectMemoryKeyword(msg) THEN Append(parts0, "nudge") ELSE parts0
      returnsEarly == ~isConfigured(mcpUrl) \/ msg \in {"none", "blank"}
      first == isFirstMessage(sid, injectedSessions)
  IN /\ ev[e].pc = "idle"
     /\ UNCHANGED pvars
     /\ IF returnsEarly THEN
          /\ ev' = [ev EXCEPT ![e] = [pc |-> "done", session |-> sid, msg |-> msg,
                                      parts |-> parts0, retrieved |-> FALSE]]
          /\ UNCHANGED injectedSessions
        ELSE IF first THEN
          /\ injectedSessions' = injectedSessions \cup {sid}
          /\ ev' = [ev EXCEPT ![e] = [pc |-> "awaiting", session |-> sid,
                                      msg |-> msg, parts |-> parts1,
                                      retrieved |-> TRUE]]
        ELSE
          /\ ev' = [ev EXCEPT ![e] = [pc |-> "done", session |-> sid, msg |-> msg,
                                      parts |-> parts1, retrieved |-> FALSE]]
          /\ UNCHANGED injectedSessions

\* The Promise.all of event e resolves: the context is composed and, when
\* non-empty, put in front of the parts.
ChatResolve(e) ==
  LET memoryContext == ChatContext(transport, DefaultConfig)
  IN /\ ev[e].pc = "awaiting"
     /\ ev' = [ev EXCEPT ![e].pc = "done",
                         ![e].parts = IF memoryContext = <<>> THEN @
                                      ELSE <<"context">> \o @]
     /\ UNCHANGED <<injectedSessions, pvars>>

\* chat.message of session sid with a text message arrives at the facade
\* under configuration cfg: the handler runs up to its await (the session
\* is recorded first, then getProfile and the two searchMemories are
\* called, so their requests are out) or, when it has nothing to retrieve,
\* to its end.
ChatMessage(sid, cfg) ==
  /\ phase = "ready"
  /\ req' = [op |-> "chat", session |-> sid, config |-> cfg]
  /\ IF isConfigured(mcpUrl) /\ isFirstMessage(sid, injectedSessions) THEN
        /\ injectedSessions' = injectedSessions \cup {sid}
        /\ phase' = "awaiting"
        /\ calls' = chatMessageCalls(mcpUrl, transport)
        /\ UNCHANGED out
     ELSE
        /\ phase' = "done"
        /\ out' = [context |-> <<>>, parts |-> <<>>]
        /\ calls' = {}
        /\ UNCHANGED injectedSessions
  /\ UNCHANGED <<world, ev, pvars>>

\* The three retrievals of that handler have settled: the context is
\* composed and, when non-empty, prepended.
ChatReturn ==
  /\ phase = "awaiting"
  /\ req.op = "chat"
  /\ phase' = "done"
  /\ out' = chatMessage(mcpUrl, transport, req.config)
  /\ UNCHANGED <<world, req, calls, cvars>>

vars == <<tvars, dvars, cvars>>

\* The transport layer on its own: concurrent operations on one client.
Init ==
  /\ transport \in Transports
  /\ TransportInit
  /\ ChatIdle
  /\ nodes = [s \in Scopes |-> <<>>]
  /\ facts = [s \in Scopes |-> <<>>]
  /\ down = {}
  /\ mcpUrl = DefaultMcpUrl
  /\ calls = {}
  /\ phase = "off"
  /\ req = NoReq
  /\ out = NoOut

Next ==
  \/ \E p \in Callers : Start(p) /\ UNCHANGED <<dvars, cvars>>
  \/ \E p \in Callers : Proceed(p) /\ UNCHANGED <<dvars, cvars>>
  \/ \E h \in HsIds, o \in InitOutcomes : InitResponse(h, o) /\ UNCHANGED <<dvars, cvars>>
  \/ \E h \in HsIds : InitNotify(h) /\ UNCHANGED <<dvars, cvars>>
  \/ \E h \in HsIds, o \in NotifyOutcomes : InitDone(h, o) /\ UNCHANGED <<dvars, cvars>>
  \/ \E p \in Callers : Resume(p) /\ UNCHANGED <<dvars, cvars>>
  \/ \E p \in Callers : InitFailed(p) /\ UNCHANGED <<dvars, cvars>>
  \/ \E p \in Callers, o \in CallOutcomes : CallResponse(p, o) /\ UNCHANGED <<dvars, cvars>>
  \/ \E p \in Callers, op \in RestOps, g \in RestGroupIds :
       RestStart(p, op, g) /\ UNCHANGED <<dvars, cvars>>
  \/ \E p \in Callers, o \in RestOutcomes : RestResponse(p, o) /\ UNCHANGED <<dvars, cvars>>

Spec == Init /\ [][Next]_vars

\* The project nodes of the backend: the profile, which reads the labels,
\* is built from the user group only, so these carry one label set.
ProjectNodeLists ==
  {l \in NodeLists("project") : \A i \in DOMAIN l : l[i].labels = <<"Requirement">>}

\* The facade over a backend holding any bounded graph, any of whose calls
\* may fail.
FacadeInit ==
  /\ transport \in Transports
  /\ TransportInit
  /\ ChatIdle
  /\ nodes \in [user : NodeLists("user"), project : ProjectNodeLists]
  /\ facts \in [user : FactLists("user"), project : FactLists("project")]
  /\ down \in SUBSET (Scopes \X {"nodes", "facts"})
  /\ mcpUrl \in McpUrls
  /\ (mcpUrl = "") => (down = {})  \* no call is made: outages cannot show
  /\ calls = {}
  /\ phase = "ready"
  /\ req = NoReq
  /\ out = NoOut

FacadeNext ==
  \/ /\ phase = "ready"
     /\ \E scope \in Scopes \cup {NoScope}, limit \in Limits :
          Search(scope, limit) /\ UNCHANGED <<tvars, cvars>>
  \/ /\ phase = "ready"
     /\ \E s \in Scopes, m \in BOOLEAN :
          SearchMemories(s, m) /\ UNCHANGED <<tvars, cvars>>
  \/ /\ phase = "ready"
     /\ \E s \in Scopes : SearchNodes(s) /\ UNCHANGED <<tvars, cvars>>
  \/ Profile /\ UNCHANGED <<tvars, cvars>>
  \/ Help /\ UNCHANGED <<tvars, cvars>>
  \/ /\ phase = "ready"
     /\ \E mode \in ScopedModes, scope \in Scopes \cup {NoScope},
           given, private \in BOOLEAN :
          Scoped(mode, scope, given, private) /\ UNCHANGED <<tvars, cvars>>
  \/ /\ phase = "ready"
     /\ \E mode \in DispatchModes, memoryId \in MemoryIds :
          \E owner \in Scopes \cup {NoScope} :
            Dispatch(mode, memoryId, owner) /\ UNCHANGED <<tvars, cvars>>
  \/ /\ phase = "ready"
     /\ \E sid \in Sessions, cfg \in Configs :
          ChatMessage(sid, cfg) /\ UNCHANGED tvars
  \/ ChatReturn /\ UNCHANGED tvars

FacadeSpec == FacadeInit /\ [][FacadeNext]_vars

\* chat.message events of several sessions, overlapping at will, over a
\* backend that holds no memory or one user fact.
ChatInit ==
  /\ transport \in Transports
  /\ TransportInit
  /\ ChatIdle
  /\ nodes = [s \in Scopes |-> <<>>]
  /\ facts \in [user : {<<>>, <<FactAt("user", 1, Null)>>}, project : {<<>>}]
  /\ down = {}
  /\ mcpUrl \in McpUrls
  /\ calls = {}
  /\ phase = "off"
  /\ req = NoReq
  /\ out = NoOut

ChatNext ==
  \/ \E e \in Events, sid \in Sessions, msg \in Messages :
       ChatArrive(e, sid, msg) /\ UNCHANGED <<tvars, dvars>>
  \/ \E e \in Events : ChatResolve(e) /\ UNCHANGED <<tvars, dvars>>

ChatSpec == ChatInit /\ [][ChatNext]_vars

\* ------------------------------------------- scope-less search, step by step
\* The two searchMemories calls of the scope-less search, in the order they
\* are handed to Promise.all.
FanBranches == <<"user", "project">>

\* Promise.all: the array it resolves with, given the order in which the
\* promises settled.
PromiseAll_ByArrival(order) == order

PromiseAll(order) == FanBranches

\* execute({mode: "search", query, limit}) without a scope runs up to its
\* await: both calls are in flight.
FanStart(limit) ==
  /\ phase = "ready"
  /\ phase' = "awaiting"
  /\ req' = [op |-> "search", scope |-> NoScope, limit |-> limit, order |-> <<>>]
  /\ calls' = MemoryCalls(transport, "user") \cup MemoryCalls(transport, "project")
  /\ UNCHANGED <<out, world>>

\* The call of branch b settles; when it is the second, Promise.all
\* resolves and the handler builds its response.
FanResolve(b) ==
  LET order == Append(req.order, b)
      arr == PromiseAll(order)
  IN /\ phase = "awaiting"
     /\ \A i \in DOMAIN req.order : req.order[i] # b
     /\ req' = [req EXCEPT !.order = order]
     /\ IF Len(order) = Len(FanBranches) THEN
          /\ phase' = "done"
          /\ out' = CombinedSearch(searchMemories(transport, arr[1], FALSE),
                                   searchMemories(transport, arr[2], FALSE),
                                   req.limit)
        ELSE UNCHANGED <<phase, out>>
     /\ UNCHANGED <<calls, world>>

FanInit ==
  /\ transport \in Transports
  /\ TransportInit
  /\ ChatIdle
  /\ nodes \in [user : NodeLists("user"), project : ProjectNodeLists]
  /\ facts \in [user : FactLists("user"), project : FactLists("project")]
  /\ down \in SUBSET (Scopes \X {"nodes", "facts"})
  /\ mcpUrl = DefaultMcpUrl
  /\ calls = {}
  /\ phase = "ready"
  /\ req = NoReq
  /\ out = NoOut

FanNext ==
  \/ /\ phase = "ready"
     /\ \E limit \in Limits : FanStart(limit) /\ UNCHANGED <<tvars, cvars>>
  \/ /\ phase = "awaiting"
     /\ \E b \in Scopes : FanResolve(b) /\ UNCHANGED <<tvars, cvars>>

FanSpec == FanInit /\ [][FanNext]_vars

\* ------------------------------------------- group ids of a process
\* Process starts and facade operations of one behaviour.
MaxStarts == 2
MaxOps == 2

\* groupIdPrefix as the configuration file and the environment may hold it
\* (Null: not set), and the tags the resolution is given: a stable user
\* identifier and a fingerprint of the project directory.
FilePrefixes == {Null, "team"}
EnvPrefixes == {Null, "lab"}
UserTags == {"alice"}
ProjectTags == {"p1", "p2"}

\* getTags of services/tags, which index.ts imports and src/ does not
\* hold: the group id of a scope is the string {prefix}-{scope}-{tag}.
getTags(prefix, userTag, projectTag) ==
  [user |-> prefix \o "-user-" \o userTag,
   project |-> prefix \o "-project-" \o projectTag]

\* The group id an operation hands to the client for the group g of its
\* scope: tags.user or tags.project of the closure.
GroupIdOf_Reloaded(g) ==
  LET last == resolved[Len(resolved)]
  IN getTags(IF fileConfig # Null THEN fileConfig ELSE last.prefix,
             resolved[Len(resolved) - 1].tag, last.tag)[g]

GroupIdOf(g) == tags[g]

\* The process starts with env as GRAPHITI_GROUP_ID_PREFIX: config.ts reads
\* the prefix once (file ?? env ?? default) and the plugin resolves its two
\* tags once.
ProcessStart(env, userTag, projectTag) ==
  LET prefix == IF fileConfig # Null THEN fileConfig
                ELSE IF env # Null THEN env ELSE "opencode"
      t == getTags(prefix, userTag, projectTag)
  IN /\ Len(resolved) < 2 * MaxStarts
     /\ tags' = t
     /\ resolved' = resolved \o
          << [prefix |-> prefix, scope |-> "user", tag |-> userTag, id |-> t.user],
             [prefix |-> prefix, scope |-> "project", tag |-> projectTag,
              id |-> t.project] >>
     /\ UNCHANGED <<fileConfig, used, injectedSessions, ev>>

\* The configuration file is edited while the process runs (CONFIG reloads
\* it on access; groupIdPrefix keeps its start-up value).
EditConfig(prefix) ==
  /\ fileConfig # prefix
  /\ fileConfig' = prefix
  /\ UNCHANGED <<tags, resolved, used, injectedSessions, ev>>

\* The arguments of the facade operations that address a group, and
\* chat.message.
OpArgs ==
  [mode : {"add", "list", "graph", "search", "profile", "chat"},
   scope : Scopes \cup {NoScope}, content : {"text"}, centerNodeId : {"node-1"}]

\* The groups a facade operation addresses.
OpGroups(args) ==
  {c[1] : c \in IF args.mode = "chat"
                THEN chatMessageCalls(mcpUrl, transport)
                ELSE executeCalls(mcpUrl, transport, args)}

\* The number of the running process.
StartNo == Len(resolved) \div 2

\* A facade operation of the running plugin hands the group id of each
\* group it addresses to the client.
FacadeOp(args) ==
  LET groups == OpGroups(args)
      entry(g) == IF g \in groups
                  THEN << [start |-> StartNo, scope |-> g, id |-> GroupIdOf(g)] >>
                  ELSE <<>>
  IN /\ resolved # <<>>
     /\ groups # {}
     /\ Len(used) + Cardinality(groups) <= MaxOps
     /\ used' = used \o entry("user") \o entry("project")
     /\ UNCHANGED <<fileConfig, tags, resolved, injectedSessions, ev>>

\* Processes started one after another on one machine, the configuration
\* file edited at will, each process serving facade operations.
TagInit ==
  /\ transport \in Transports
  /\ TransportInit
  /\ injectedSessions = {}
  /\ ev = [e \in Events |-> IdleEvent]
  /\ fileConfig \in FilePrefixes
  /\ tags = NoTags
  /\ resolved = <<>>
  /\ used = <<>>
  /\ nodes = [s \in Scopes |-> <<>>]
  /\ facts = [s \in Scopes |-> <<>>]
  /\ down = {}
  /\ mcpUrl = DefaultMcpUrl
  /\ calls = {}
  /\ phase = "ready"
  /\ req = NoReq
  /\ out = NoOut

TagNext ==
  \/ \E env \in EnvPrefixes, userTag \in UserTags, projectTag \in ProjectTags :
       ProcessStart(env, userTag, projectTag) /\ UNCHANGED <<tvars, dvars>>
  \/ \E prefix \in FilePrefixes : EditConfig(prefix) /\ UNCHANGED <<tvars, dvars>>
  \/ \E args \in OpArgs : FacadeOp(args) /\ UNCHANGED <<tvars, dvars>>

TagSpec == TagInit /\ [][TagNext]_vars

\* ------------------------------------------- pure functions on their own
\* Longest memory list handed to the composer.
MaxLines == 2

\* Memory results as the composer may receive them: every field present or
\* absent.
Mems ==
  [id : {"m1"}, memory : {Null, "likes tea"}, similarity : {SimNull, 0, SimFact},
   type : {Null, "node", "fact"},
   labels : {<<>>, <<"Preference">>, <<"Preference", "Topic">>},
   validAt : {Null} \cup Timestamps]

\* The memory results the composed lists are made of.
ComposeMems ==
  {m \in Mems : /\ m.memory = "likes tea" /\ m.type = "fact" /\ m.labels = <<>>
                /\ m.similarity \in {SimNull, SimFact}
                /\ m.validAt = Null}

MemLists == UNION {[1..n -> ComposeMems] : n \in 0..MaxLines}

\* The profile argument: null, or a profile with its two lists.
ProfileLists ==
  {<<>>, <<"prefers tea">>, <<"prefers tea", "uses vim">>,
   <<"prefers tea", "uses vim", "works late">>}
Profiles ==
  {[present |-> FALSE, static |-> <<>>, dynamic |-> <<>>]}
    \cup [present : {TRUE}, static : ProfileLists, dynamic : ProfileLists]

\* Values of CONFIG.maxProfileItems, and the configurations of the composer.
ProfileCaps == {0, 1, 2, MaxProfileItems}
ComposeConfigs ==
  [injectProfile : BOOLEAN, injectProjectMemories : BOOLEAN,
   injectRelevantMemories : BOOLEAN, maxProfileItems : ProfileCaps]

\* formatContextForPrompt applied to given arguments under configuration cfg.
Compose(cfg, profile, userResults, projectResults) ==
  /\ phase = "ready"
  /\ phase' = "done"
  /\ req' = [op |-> "compose", config |-> cfg, profile |-> profile,
             user |-> userResults, project |-> projectResults]
  /\ out' = [context |-> formatContextForPrompt(cfg, profile, userResults,
                                                projectResults)]
  /\ calls' = {}
  /\ UNCHANGED world

\* formatMemoryLine applied to one memory result.
FormatLine(mem) ==
  /\ phase = "ready"
  /\ phase' = "done"
  /\ req' = [op |-> "formatLine", mem |-> mem]
  /\ out' = [line |-> formatMemoryLine(mem)]
  /\ calls' = {}
  /\ UNCHANGED world

\* Contents handed to addMemory without a source kind.
Contents ==
  {"{\"a\": 1}", "  [1, 2]  ", "{\"role\": \"user\", \"content\": \"hi\"}",
   "{\"role\": \"user\", \"content\": ", "{oops", "42",
   "he said \"role\": \"user\"", "hello"}

\* content.trim()
Trim(c) ==
  CASE c = "  [1, 2]  " -> "[1, 2]"
    [] c = "{\"role\": \"user\", \"content\": " -> "{\"role\": \"user\", \"content\":"
    [] OTHER -> c

\* trimmed.startsWith("{") || trimmed.startsWith("[")
StartsLikeJson(t) ==
  t \in {"{\"a\": 1}", "[1, 2]", "{\"role\": \"user\", \"content\": \"hi\"}",
         "{\"role\": \"user\", \"content\":", "{oops"}

\* JSON.parse(trimmed) returns.
ParsesAsJson(t) ==
  t \in {"{\"a\": 1}", "[1, 2]", "{\"role\": \"user\", \"content\": \"hi\"}", "42"}

\* trimmed.includes('"role":') && (trimmed.includes('"user"') ||
\* trimmed.includes('"assistant"'))
HasRoleShape(t) ==
  t \in {"{\"role\": \"user\", \"content\": \"hi\"}",
         "{\"role\": \"user\", \"content\":", "he said \"role\": \"user\""}

\* inferSource(content)
inferSource(content) ==
  LET trimmed == Trim(content)
  IN IF StartsLikeJson(trimmed)
     THEN IF ParsesAsJson(trimmed) THEN "json" ELSE "text"
     ELSE IF HasRoleShape(trimmed) THEN "message" ELSE "text"

\* inferSource applied to one content.
InferSource(content) ==
  /\ phase = "ready"
  /\ phase' = "done"
  /\ req' = [op |-> "inferSource", content |-> content]
  /\ out' = [source |-> inferSource(content)]
  /\ calls' = {}
  /\ UNCHANGED world

\* EpisodeSource, and the source argument of addMemory (null: not given).
EpisodeSources == {"text", "json", "message"}

\* What addMemory sends for a content and a source argument: the stateful
\* client the add_memory arguments with source, the REST client a message
\* that has no source field.
AddRequest(tr, content, source) ==
  IF tr = "mcp"
  THEN [to |-> "add_memory", body |-> content,
        source |-> OrElse(source, inferSource(content))]
  ELSE [to |-> "/messages", body |-> content, source |-> Null]

\* addMemory(content, groupId, {source}) up to the request it sends.
AddMemory(tr, content, source) ==
  /\ phase = "ready"
  /\ phase' = "done"
  /\ req' = [op |-> "addMemory", transport |-> tr, content |-> content,
             source |-> source]
  /\ out' = [sent |-> AddRequest(tr, content, source)]
  /\ calls' = {}
  /\ UNCHANGED world

\* REST deleteGroup(groupId): the DELETE /group/{id} request fails for the
\* groups of failing; the catch block turns the failure into a result.
deleteGroup(groupId, failing) == [success |-> groupId \notin failing]

\* REST clearGraph(groupIds): with group ids, one deleteGroup per id, its
\* result dropped; without, POST /clear.
clearGraph(groupIds, failing) ==
  IF Len(groupIds) > 0
  THEN [success |-> TRUE,
        deleted |-> {groupIds[i] : i \in {k \in DOMAIN groupIds :
                                           deleteGroup(groupIds[k], failing).success}}]
  ELSE [success |-> "/clear" \notin failing, deleted |-> {}]

\* The groupIds argument of clearGraph, and the requests that may fail.
GroupIdLists == {<<>>, <<"user">>, <<"project">>, <<"user", "project">>}
ClearFailures == SUBSET {"user", "project", "/clear"}

\* REST clearGraph applied to a list of group ids while some requests fail.
ClearGraph(groupIds, failing) ==
  /\ phase = "ready"
  /\ phase' = "done"
  /\ req' = [op |-> "clearGraph", groupIds |-> groupIds, failing |-> failing]
  /\ out' = clearGraph(groupIds, failing)
  /\ calls' = {}
  /\ UNCHANGED world

\* graphiti tool, mode forget, for a memory id that the backend holds in
\* the group owner.
Forget(scope, memoryId, owner) ==
  /\ phase = "ready"
  /\ phase' = "done"
  /\ req' = [op |-> "forget", scope |-> scope, memoryId |-> memoryId,
             owner |-> owner]
  /\ out' = ToolForget([mode |-> "forget", scope |-> scope, memoryId |-> memoryId],
                       owner)
  /\ calls' = IF Falsy(memoryId) THEN {} ELSE {<<NoScope, "delete">>}
  /\ UNCHANGED world

\* Most lines of an event-stream body.
MaxGraphFacts == 2
MaxProfileNodes == 2
MaxSseLines == 2

\* What a data line of an event stream, or a JSON body, holds:
\*   garbage       text that JSON.parse rejects
\*   null          the JSON value null
\*   notification  a JSON-RPC notification (an object with a method and
\*                 neither result nor error), as servers send for progress
\*                 and logging before the response
\*   result        a JSON-RPC response frame with a result
\*   error         a JSON-RPC response frame with an error {message}
Payloads == {"garbage", "null", "notification", "result", "error"}

\* A line of an event stream: its field name and what follows "data: ".
SseLine(field, payload) == [field |-> field, payload |-> payload]
SseLines == {SseLine("event", "message")} \cup {SseLine("data", p) : p \in Payloads}
SseBodies == UNION {[1..n -> SseLines] : n \in 0..MaxSseLines}

\* JSON.parse(text) returns (it throws otherwise).
JsonParses(payload) == payload # "garbage"

\* A parsed value is falsy: only null is.
IsNull(v) == v = "null"

\* parseSSE from line i on: the first line that starts with "data: " and
\* whose rest parses; line 0 with value null when there is none.
RECURSIVE parseSSEFrom(_, _)
parseSSEFrom(lines, i) ==
  IF i > Len(lines) THEN [line |-> 0, value |-> "null"]
  ELSE IF lines[i].field = "data" /\ JsonParses(lines[i].payload)
       THEN [line |-> i, value |-> lines[i].payload]
       ELSE parseSSEFrom(lines, i + 1)

parseSSE(lines) == parseSSEFrom(lines, 1)

\* callMCPTool from the 2xx response on: it throws (with the message), or
\* returns the unwrapped result (undefined when the frame has none). line
\* is the line of the stream the frame was read from (0: no stream line).
Thrown(msg) == [throws |-> TRUE, error |-> msg, value |-> "none", line |-> 0]
Returned(v, line) == [throws |-> FALSE, error |-> "", value |-> v, line |-> line]

ReadFrame(frame, line) ==
  CASE frame = "error" -> Thrown("MCP Error: message")
    [] frame = "result" -> Returned("result", line)
    [] frame = "null" -> Thrown("TypeError")
    [] OTHER -> Returned("undefined", line)

ReadResponse(contentType, body) ==
  IF contentType = "text/event-stream" THEN
    LET parsed == parseSSE(body)
    IN IF IsNull(parsed.value) THEN Thrown("Failed to parse SSE response")
       ELSE ReadFrame(parsed.value, parsed.line)
  ELSE IF ~JsonParses(body) THEN Thrown("SyntaxError")
  ELSE ReadFrame(body, 0)

\* The public operation around callMCPTool: addMemory reads result.message
\* and getEntityEdge returns the result as it is; a throw becomes
\* {success: false, error}.
OperationResult(t, r) ==
  IF r.throws THEN [success |-> FALSE, error |-> r.error, line |-> 0]
  ELSE IF r.value = "undefined" /\ OpReturn(t, "okNoResult") = OpCatch
  THEN [success |-> FALSE, error |-> "TypeError", line |-> r.line]
  ELSE [success |-> TRUE, error |-> "", line |-> r.line]

\* An operation of the stateful client receives a 2xx response.
Respond(t, contentType, body) ==
  /\ phase = "ready"
  /\ phase' = "done"
  /\ req' = [op |-> "respond", tool |-> t, contentType |-> contentType,
             body |-> body]
  /\ out' = OperationResult(t, ReadResponse(contentType, body))
  /\ calls' = {}
  /\ UNCHANGED world

\* Nodes and facts as a backend may return them: the uuid present, empty
\* or missing.
Uuids == {"id1", "", Null}
RawNodes == {[NodeAt("user", 1, <<"Preference">>) EXCEPT !.uuid = u] : u \in Uuids}
RawFacts ==
  {[FactAt("user", 1, inv) EXCEPT !.uuid = u] : u \in Uuids, inv \in InvalidAts}
RawNodeLists == UNION {[1..n -> RawNodes] : n \in 0..MaxNodes}
RawFactLists == UNION {[1..n -> RawFacts] : n \in 0..MaxFacts}

\* The result list of searchMemories for given backend answers.
Normalise(tr, nodeList, factList) ==
  /\ phase = "ready"
  /\ phase' = "done"
  /\ req' = [op |-> "normalise", transport |-> tr, nodes |-> nodeList,
             facts |-> factList]
  /\ out' = [results |-> MemoryResults(tr, nodeList, factList)]
  /\ calls' = {}
  /\ UNCHANGED world

\* Node lists that a profile search may be answered: nodes of distinct
\* names, each with one of the label sets.
ProfileLabelSets ==
  {<<>>, <<"Preference">>, <<"Requirement">>, <<"Requirement", "Preference">>}
ProfileNodeLists ==
  UNION {{[i \in 1..n |-> NodeAt("user", i, f[i])] : f \in [1..n -> ProfileLabelSets]}
         : n \in 0..MaxProfileNodes}

\* The profile of getProfile for the nodes returned, under a given
\* CONFIG.maxProfileItems.
Classify(nodeList, n) ==
  /\ phase = "ready"
  /\ phase' = "done"
  /\ req' = [op |-> "classify", nodes |-> nodeList, cap |-> n]
  /\ out' = NodeProfile(nodeList, n)
  /\ calls' = {}
  /\ UNCHANGED world

\* Fact lists that a graph exploration may be answered: facts of distinct
\* uuids, each valid or superseded.
GraphFactLists ==
  UNION {{[i \in 1..n |-> FactAt("project", i, f[i])] : f \in [1..n -> InvalidAts]}
         : n \in 0..MaxGraphFacts}

\* The relationships that the graph mode reports for the facts returned.
Partition(factList) ==
  /\ phase = "ready"
  /\ phase' = "done"
  /\ req' = [op |-> "partition", facts |-> factList]
  /\ out' = GraphRelationships(factList)
  /\ calls' = {}
  /\ UNCHANGED world

PureInit ==
  /\ transport \in Transports
  /\ TransportInit
  /\ ChatIdle
  /\ nodes = [s \in Scopes |-> <<>>]
  /\ facts = [s \in Scopes |-> <<>>]
  /\ down = {}
  /\ mcpUrl = DefaultMcpUrl
  /\ calls = {}
  /\ phase = "ready"
  /\ req = NoReq
  /\ out = NoOut

PureNext ==
  \/ /\ phase = "ready"
     /\ \E cfg \in ComposeConfigs, profile \in Profiles, u \in MemLists, p \in MemLists :
          Compose(cfg, profile, u, p) /\ UNCHANGED <<tvars, cvars>>
  \/ /\ phase = "ready"
     /\ \E mem \in Mems : FormatLine(mem) /\ UNCHANGED <<tvars, cvars>>
  \/ /\ phase = "ready"
     /\ \E content \in Contents : InferSource(content) /\ UNCHANGED <<tvars, cvars>>
  \/ /\ phase = "ready"
     /\ \E t \in Tools, body \in SseBodies :
          Respond(t, "text/event-stream", body) /\ UNCHANGED <<tvars, cvars>>
  \/ /\ phase = "ready"
     /\ \E t \in Tools, body \in Payloads :
          Respond(t, "application/json", body) /\ UNCHANGED <<tvars, cvars>>
  \/ /\ phase = "ready"
     /\ \E tr \in Transports, ns \in RawNodeLists, fs \in RawFactLists :
          Normalise(tr, ns, fs) /\ UNCHANGED <<tvars, cvars>>
  \/ /\ phase = "ready"
     /\ \E fs \in GraphFactLists : Partition(fs) /\ UNCHANGED <<tvars, cvars>>
  \/ /\ phase = "ready"
     /\ \E ns \in ProfileNodeLists, n \in ProfileCaps :
          Classify(ns, n) /\ UNCHANGED <<tvars, cvars>>
  \/ /\ phase = "ready"
     /\ \E tr \in Transports, content \in Contents, source \in EpisodeSources \cup {Null} :
          AddMemory(tr, content, source) /\ UNCHANGED <<tvars, cvars>>
  \/ /\ phase = "ready"
     /\ \E groupIds \in GroupIdLists, failing \in ClearFailures :
          ClearGraph(groupIds, failing) /\ UNCHANGED <<tvars, cvars>>
  \/ /\ phase = "ready"
     /\ \E scope \in Scopes \cup {NoScope}, memoryId \in {Null, "ep-1"},
           owner \in Scopes \cup {NoScope} :
          Forget(scope, memoryId, owner) /\ UNCHANGED <<tvars, cvars>>

PureSpec == PureInit /\ [][PureNext]_vars

\* ------------------------------------------- session claims (under Spec)
\* Number of session invalidations so far: tools/call attempts answered
\* with the session error the client recognises.
Invalidations ==
  LET n[p \in 0..NumCallers] ==
        IF p = 0 THEN 0
        ELSE n[p - 1] + Cardinality({i \in DOMAIN att[p] : att[p][i] = "expired"})
  IN n[NumCallers]

\* Handshakes whose initializeSession() run has not settled.
InFlight == {h \in HsIds : hs[h] \in {"fetch", "text", "notify"}}

\* Positions in the wire log of the tools/call requests of caller p.
CallsBy(p) == {i \in DOMAIN sent : sent[i].method = "tools/call" /\ sent[i].proc = p}

\* Positions of the initialize requests caller p issued after its first
\* tools/call request.
ReInitsBy(p) ==
  {i \in DOMAIN sent : /\ sent[i].method = "initialize"
                       /\ sent[i].proc = p
                       /\ \E j \in CallsBy(p) : j < i}

\* C1: if every tools/call attempt of an operation is answered with a
\* session-expired error, the operation fails after the second attempt, and
\* no operation makes a third tools/call attempt.
C1_RetryBound ==
  \A p \in Callers :
    /\ Cardinality(CallsBy(p)) <= 2
    /\ (Len(att[p]) >= 2 /\ att[p][1] = "expired" /\ att[p][2] = "expired")
         => (pc[p] = "done" /\ res[p] = "failure")

\* C2: an operation whose first attempt is answered with a session-expired
\* error and whose second attempt succeeds returns success, having sent
\* exactly two tools/call requests (for the same tool) and exactly one
\* initialize request after the first attempt.
C2_RetrySuccess ==
  \A p \in Callers :
    (Len(att[p]) >= 2 /\ att[p][1] = "expired" /\ att[p][2] = "ok")
      => /\ pc[p] = "done"
         /\ res[p] = "success"
         /\ Len(att[p]) = 2
         /\ Cardinality(CallsBy(p)) = 2
         /\ \A i \in CallsBy(p) : sent[i].tool = tool[p]
         /\ Cardinality(ReInitsBy(p)) = 1

C2_Witness ==
  \E p \in Callers : att[p] = <<"expired", "ok">> /\ res[p] = "success"

\* No initialize request is issued in this step.
NoNewInit == \A h \in HsIds : hs[h] = "none" => hs'[h] = "none"

\* C3 as stated: while no session exists and a handshake is in flight, no
\* second initialize request is issued.
C3_Original ==
  [][(sessionId = NoSession /\ InFlight # {}) => NoNewInit]_vars

\* C3 as amended: while no session exists and the handshake recorded in
\* initPromise is in flight, every caller entering ensureSession awaits that
\* handshake, and no initialize request is issued except by a caller that
\* has just invalidated the session.
C3_Dedup ==
  [][(/\ sessionId = NoSession
      /\ initPromise # NoPromise
      /\ initPromise \in InFlight
      /\ Invalidations' = Invalidations)
     => /\ NoNewInit
        /\ \A p \in Callers :
             (pc[p] = "idle" /\ pc'[p] # "idle")
               => (pc'[p] = "awaitInit" /\ waitOn'[p] = initPromise)]_vars

C3_Witness ==
  \E h \in HsIds :
    /\ sessionId = NoSession
    /\ hs[h] = "fetch"
    /\ initPromise = h
    /\ Cardinality({p \in Callers : pc[p] = "awaitInit" /\ waitOn[p] = h}) >= 2
    /\ Cardinality({i \in DOMAIN sent : sent[i].method = "initialize"}) = 1

\* C4 as stated: at most one session initialization is in flight in every
\* reachable state.
C4_Original == Cardinality(InFlight) <= 1

\* C4 as amended: at most one session initialization is in flight until a
\* session invalidation occurs, and each invalidation adds at most one.
C4_InFlightBound == Cardinality(InFlight) <= 1 + Invalidations

C4_Witness ==
  /\ Invalidations >= 1
  /\ Cardinality(InFlight) = 1 + Invalidations

\* C5: a public operation of either transport client ends with a tagged
\* success or failure result and never with an exception, whatever the
\* backend did.
C5_NeverThrows ==
  \A p \in Callers :
    /\ res[p] \in {"none", "success", "failure"}
    /\ pc[p] = "done" <=> res[p] # "none"

C5_Witness ==
  \E p, q \in Callers :
    /\ pc[p] = "done" /\ res[p] = "failure" /\ att[p] = <<>>
    /\ pc[q] = "done" /\ res[q] = "failure" /\ att[q] = <<"failed">>

\* C10: an operation never ends on a client error (4xx) whose text
\* references the session: the session is discarded and the call retried.
C10_Original ==
  \A p \in Callers :
    (pc[p] = "done" /\ att[p] # <<>>)
      => att[p][Len(att[p])] \notin {"expired", "session4xx"}


\* The requests of the wire log that carry a JSON-RPC id (initialize and
\* tools/call requests of the stateful client).
WithId == {i \in DOMAIN sent : sent[i].method \in {"initialize", "tools/call"}}

\* C13: request ids are unique and increasing: each handshake or tools/call
\* request, retries included, carries an id strictly greater than the id of
\* every request issued before it, under every interleaving.
C13_RequestIds ==
  \A i, j \in WithId : i < j => sent[i].id < sent[j].id

\* The requests of two callers interleave, and one of the callers has
\* re-handshaken and sent its retry after a session error.
C13_Witness ==
  \E p, q \in Callers :
    /\ p # q
    /\ Cardinality(CallsBy(p)) >= 2
    /\ ReInitsBy(p) # {}
    /\ \E i \in WithId : sent[i].proc = q
    /\ Cardinality(WithId) >= 4

\* A session error of any kind has been reported to some caller.
SessionErrorReported ==
  \E p \in Callers : \E i \in DOMAIN att[p] : att[p][i] \in {"expired", "session4xx"}

\* The initialize requests of the wire log.
Inits == {i \in DOMAIN sent : sent[i].method = "initialize"}

\* C21: while a session token is held and the server has reported no
\* session error, no step issues an initialize request, however many
\* operations start.
C21_NoReInit ==
  [][(sessionId # NoSession /\ ~SessionErrorReported') => NoNewInit]_vars

\* One handshake succeeded and both callers' operations were answered on
\* its session: a single initialize request is on the wire.
C21_Witness ==
  /\ sessionId # NoSession
  /\ hs[sessionId] = "resolved"
  /\ ~SessionErrorReported
  /\ \A p \in Callers : pc[p] = "done" /\ att[p] = <<"ok">>
  /\ Cardinality(Inits) = 1

\* The request this step puts on the wire is a tools/call request.
NewCall ==
  /\ Len(sent') = Len(sent) + 1
  /\ sent'[Len(sent')].method = "tools/call"

\* C22: every tools/call request sent while the client holds a session
\* token carries that token in its session header.
C22_CurrentToken ==
  [][(NewCall /\ sessionId' # NoSession)
       => sent'[Len(sent')].tok = sessionId']_vars

\* A retried operation: its second tools/call request carries the token of
\* the second handshake, not the one its first request carried.
C22_Witness ==
  \E p \in Callers : \E i, j \in CallsBy(p) :
    /\ i < j
    /\ sent[i].tok # NoSession
    /\ sent[j].tok = sessionId
    /\ sent[j].tok # sent[i].tok

\* ------------------------------------------- facade claims (under FacadeSpec)
\* The facts the backend holds as invalidated (a non-null invalid_at).
InvalidFactsOf(s) == {i \in DOMAIN facts[s] : facts[s][i].invalid_at # Null}

\* An item of a result list shows the i-th fact of group s.
ShowsFact(item, s, i) ==
  \/ item.id = facts[s][i].uuid
  \/ (IF "memory" \in DOMAIN item THEN item.memory ELSE item.content) = facts[s][i].fact

\* C6: a fact the backend returns with a non-null invalid_at never appears
\* in what searchMemories returns, on either transport (the REST getMemory
\* path included), nor in what the search mode of the tool returns.
C6_TemporalFilter ==
  (phase = "done" /\ req.op \in {"searchMemories", "search"}) =>
    \A s \in Scopes : \A i \in InvalidFactsOf(s) :
      \A j \in DOMAIN out.results : ~ShowsFact(out.results[j], s, i)

\* A scope-less search over REST answered with an invalidated user fact and
\* a valid project fact: only the valid one is returned.
C6_Witness ==
  /\ phase = "done" /\ req.op = "search" /\ req.scope = NoScope
  /\ transport = "rest" /\ down = {}
  /\ InvalidFactsOf("user") # {}
  /\ Len(facts["project"]) > 0 /\ InvalidFactsOf("project") = {}
  /\ out.success /\ Len(out.results) = Len(facts["project"])

\* The text of an invalidated fact of some group.
InvalidFactTexts ==
  UNION {{facts[s][i].fact : i \in InvalidFactsOf(s)} : s \in Scopes}

\* C7: an invalidated fact never appears in the profile that getProfile
\* returns nor in the context that chat.message injects.
C7_Original ==
  /\ (phase = "done" /\ req.op = "profile") =>
       \A j \in DOMAIN out.static \cup DOMAIN out.dynamic :
         /\ j \in DOMAIN out.static => out.static[j] \notin InvalidFactTexts
         /\ j \in DOMAIN out.dynamic => out.dynamic[j] \notin InvalidFactTexts
  /\ (phase = "done" /\ req.op = "chat") =>
       \A j \in DOMAIN out.context : out.context[j].text \notin InvalidFactTexts

\* A backend call made by the user or the project branch of a scope-less
\* search fails (the REST client makes no node search).
BranchCallFailed ==
  \E s \in Scopes :
    \/ <<s, "facts">> \in down
    \/ transport = "mcp" /\ <<s, "nodes">> \in down

\* C8: a scope-less search one of whose branches' backend call fails
\* answers {success: false}.
C8_Original ==
  (phase = "done" /\ req.op = "search" /\ req.scope = NoScope /\ BranchCallFailed)
    => ~out.success

\* The limit the caller asked for: the argument, 10 when absent.
RequestedLimit == IF req.limit.given THEN req.limit.n ELSE DefaultLimit

\* The group an id of the backend belongs to.
GroupOf(id) ==
  IF \E i \in 1..3 : id \in {NodeUuid["user"][i], FactUuid["user"][i]}
  THEN "user" ELSE "project"

\* C9: a successful scope-less search returns the merged hits in descending
\* similarity, each tagged with the scope it came from, and at most the
\* requested limit of them (10 by default).
C9_Original ==
  (phase = "done" /\ req.op = "search" /\ req.scope = NoScope /\ out.success) =>
    /\ Len(out.results) <= RequestedLimit
    /\ \A j \in 1..(Len(out.results) - 1) :
         out.results[j].similarity >= out.results[j + 1].similarity
    /\ \A j \in DOMAIN out.results : out.results[j].scope = GroupOf(out.results[j].id)



\* C12: searchNodes on the stateless client returns success with an empty
\* node list and total 0 and issues no request, whatever group is searched
\* and whatever the backend holds or would answer.
C12_RestSearchNodes ==
  (phase = "done" /\ req.op = "searchNodes" /\ transport = "rest") =>
    /\ out.success
    /\ out.nodes = <<>>
    /\ out.total = 0
    /\ out.requests = 0

\* The call is made for a group whose node search would fail and for which
\* the backend holds nodes.
C12_Witness ==
  /\ phase = "done" /\ req.op = "searchNodes" /\ transport = "rest"
  /\ <<req.scope, "nodes">> \in down
  /\ nodes[req.scope] # <<>>
  /\ out.success


\* C16: when no MCP URL is set (GRAPHITI_MCP_URL is empty) every mode of
\* the graphiti tool answers {success: false} with the configuration error
\* and makes no backend call, and chat.message makes no backend call and
\* appends no part.
C16_NotConfigured ==
  (phase = "done" /\ mcpUrl = "") =>
    /\ req.op \in {"help", "search", "profile", "dispatch"} \cup ScopedModes =>
         /\ ~out.success
         /\ out.error = "GRAPHITI_MCP_URL not set"
         /\ calls = {}
    /\ req.op = "chat" =>
         /\ calls = {}
         /\ out.parts = <<>>

\* A scope-less search against a backend that holds facts and answers, with
\* no URL configured.
C16_Witness ==
  /\ phase = "done" /\ mcpUrl = ""
  /\ req.op = "search" /\ req.scope = NoScope
  /\ down = {} /\ facts["user"] # <<>> /\ InvalidFactsOf("user") = {}
  /\ ~out.success /\ out.results = <<>> /\ calls = {}


\* ------------------------------------------- composer claims (under PureSpec)
\* No section is emitted for the composed request: the profile is absent,
\* has two empty lists or is switched off, and each memory list is empty or
\* switched off.
NoSection ==
  /\ \/ ~req.config.injectProfile
     \/ ~req.profile.present
     \/ (req.profile.static = <<>> /\ req.profile.dynamic = <<>>)
  /\ (~req.config.injectProjectMemories \/ req.project = <<>>)
  /\ (~req.config.injectRelevantMemories \/ req.user = <<>>)

\* C14: when no section is emitted formatContextForPrompt returns the empty
\* string, never the bare header; otherwise its output starts with the
\* header line.
C14_ComposerEmptiness ==
  (phase = "done" /\ req.op = "compose") =>
    IF NoSection THEN out.context = <<>>
    ELSE /\ Len(out.context) >= 2
         /\ out.context[1].kind = "header"

\* A present profile with empty lists and empty memory lists, every toggle
\* on.
C14_Witness ==
  /\ phase = "done" /\ req.op = "compose"
  /\ req.config.injectProfile /\ req.config.injectProjectMemories
  /\ req.config.injectRelevantMemories
  /\ req.profile.present /\ req.profile.static = <<>> /\ req.profile.dynamic = <<>>
  /\ req.user = <<>> /\ req.project = <<>>
  /\ out.context = <<>>

\* Position of a tag kind in the fixed order.
TagRank(kind) ==
  CASE kind = "type" -> 1 [] kind = "labels" -> 2 [] kind = "temporal" -> 3
    [] OTHER -> 4

TagKinds(line) == {line.tags[i].tag : i \in DOMAIN line.tags}

\* C15: the tags of a memory line come in the order type, labels, temporal,
\* similarity, each one only if its field is present, and the line ends with
\* the memory text.
C15_LineFormat ==
  (phase = "done" /\ req.op = "formatLine") =>
    LET mem == req.mem
        lineTags == out.line.tags
    IN /\ \A i, j \in DOMAIN lineTags :
            i < j => TagRank(lineTags[i].tag) < TagRank(lineTags[j].tag)
       /\ TagKinds(out.line) \subseteq {"type", "labels", "temporal", "similarity"}
       /\ "type" \in TagKinds(out.line) <=> mem.type # Null
       /\ "labels" \in TagKinds(out.line) <=> mem.labels # <<>>
       /\ "temporal" \in TagKinds(out.line) <=> mem.validAt # Null
       /\ "similarity" \in TagKinds(out.line) <=> mem.similarity # SimNull
       /\ \A i \in DOMAIN lineTags :
            /\ lineTags[i].tag = "type" => lineTags[i].val = mem.type
            /\ lineTags[i].tag = "labels" => lineTags[i].val = mem.labels
            /\ lineTags[i].tag = "similarity" => lineTags[i].val = mem.similarity
       /\ out.line.text = (IF mem.memory = Null THEN "" ELSE mem.memory)

\* A memory with all four fields: four tags.
C15_Witness ==
  /\ phase = "done" /\ req.op = "formatLine"
  /\ req.mem.type = "fact" /\ req.mem.labels = <<"Preference", "Topic">>
  /\ req.mem.validAt = "now-90d" /\ req.mem.similarity = 0
  /\ Len(out.line.tags) = 4
  /\ out.line.tags[3].val.days = 90

\* C17: without a given source the kind is json if the trimmed content
\* parses as JSON, otherwise message if the text has the conversational-role
\* shape, otherwise text.
C17_Original ==
  (phase = "done" /\ req.op = "inferSource") =>
    LET trimmed == Trim(req.content)
    IN out.source = IF ParsesAsJson(trimmed) THEN "json"
                    ELSE IF HasRoleShape(trimmed) THEN "message"
                    ELSE "text"

\* ------------------------------------------- fan-out claims (under FanSpec)
\* C23: the scope-less search produces no response before both of its
\* calls have settled, and its response is the one built from the user
\* result followed by the project result, whichever call settled first.
C23_FanOut ==
  /\ (out # NoOut) => (phase = "done" /\ Len(req.order) = 2)
  /\ (phase = "done") =>
       out = CombinedSearch(searchMemories(transport, "user", FALSE),
                            searchMemories(transport, "project", FALSE),
                            req.limit)

\* The project call settled before the user call, each brought a result,
\* and the response holds both under their own scope.
C23_Witness ==
  /\ phase = "done" /\ req.order = <<"project", "user">>
  /\ out.success /\ Len(out.results) = 2
  /\ \E i, j \in DOMAIN out.results :
       /\ out.results[i].scope = "user" /\ out.results[i].content = facts["user"][1].fact
       /\ out.results[j].scope = "project"
       /\ out.results[j].content = facts["project"][1].fact

\* ------------------------------------------- tags and sections (under PureSpec)
\* The temporal tag of a formatted line, or the "none" tag.
TemporalTagOf(line) ==
  IF \E i \in DOMAIN line.tags : line.tags[i].tag = "temporal"
  THEN (CHOOSE t \in {line.tags[i] : i \in DOMAIN line.tags} : t.tag = "temporal").val
  ELSE [text |-> "none", days |-> 0]

\* The tag that an age in hours gets when the buckets end at recentEnd,
\* weekEnd and monthEnd hours (each end included).
BucketOf(age, recentEnd, weekEnd, monthEnd) ==
  IF age <= recentEnd THEN [text |-> "recent", days |-> 0]
  ELSE IF age <= weekEnd THEN [text |-> "this week", days |-> 0]
  ELSE IF age <= monthEnd THEN [text |-> "this month", days |-> 0]
  ELSE [text |-> "d ago", days |-> age \div 24]

\* C26 as stated: the tag is recent up to 1 day of age, this week above 1
\* and up to 7 days, this month above 7 and up to 30 days, "<days>d ago"
\* beyond, and a memory without validAt has no temporal tag.
C26_Original ==
  (phase = "done" /\ req.op = "formatLine") =>
    IF req.mem.validAt = Null
    THEN TemporalTagOf(out.line).text = "none"
    ELSE TemporalTagOf(out.line) =
           BucketOf(HoursSince(req.mem.validAt), 24, 7 * 24, 30 * 24)

\* C26, amended: the age is counted in whole days, rounded down, so the tag
\* is recent below 2 days of age, this week from 2 days to below 8, this
\* month from 8 days to below 31, "<whole days>d ago" from 31 days on, and
\* a memory without validAt has no temporal tag.
C26_WholeDays ==
  (phase = "done" /\ req.op = "formatLine") =>
    IF req.mem.validAt = Null
    THEN TemporalTagOf(out.line).text = "none"
    ELSE TemporalTagOf(out.line) =
           BucketOf(HoursSince(req.mem.validAt), 2 * 24 - 1, 8 * 24 - 1, 31 * 24 - 1)

\* A memory one day and a half old is tagged recent.
C26_Witness ==
  /\ phase = "done" /\ req.op = "formatLine"
  /\ req.mem.validAt = "now-36h"
  /\ TemporalTagOf(out.line).text = "recent"

\* Position of a section in the claimed order, by its title line.
SectionRank(title) ==
  CASE title = "User Preferences (stable):" -> 1
    [] title = "Recent Context (dynamic):" -> 2
    [] title = "Project Knowledge (entities & facts):" -> 3
    [] OTHER -> 4

TitlePositions(ctx) == {i \in DOMAIN ctx : ctx[i].kind = "title"}

\* The lines under the title of the given rank, up to the next title or the
\* end of the block; <<>> when the block has no such title.
SectionBody(ctx, rank) ==
  LET at == {i \in TitlePositions(ctx) : SectionRank(ctx[i].text) = rank}
  IN IF at = {} THEN <<>>
     ELSE LET i == CHOOSE k \in at : TRUE
              later == {k \in TitlePositions(ctx) : k > i}
              last == IF later = {} THEN Len(ctx)
                      ELSE (CHOOSE k \in later : \A l \in later : k <= l) - 1
          IN SubSeq(ctx, i + 1, last)

\* The texts of the body are the first texts of the list, in order.
IsPrefixOfTexts(body, list) ==
  /\ Len(body) <= Len(list)
  /\ \A k \in DOMAIN body : body[k].kind = "profile" /\ body[k].text = list[k]

\* The body has the line of each memory result, in input order.
IsLinesOf(body, results) ==
  /\ Len(body) = Len(results)
  /\ \A k \in DOMAIN body : body[k] = formatMemoryLine(results[k])

\* C27: a composed block has at most maxProfileItems lines under stable
\* preferences and at most as many under recent context, its sections come
\* in the order header, stable preferences, recent context, project
\* knowledge, relevant memories, and each memory section has one line per
\* memory result in input order.
C27_Sections ==
  (phase = "done" /\ req.op = "compose" /\ out.context # <<>>) =>
    LET ctx == out.context
        n == req.config.maxProfileItems
        titles == TitlePositions(ctx)
    IN /\ ctx[1].kind = "header"
       /\ \A i \in DOMAIN ctx : i > 1 => ctx[i].kind # "header"
       /\ \A i, j \in titles : i < j => SectionRank(ctx[i].text) < SectionRank(ctx[j].text)
       /\ Len(SectionBody(ctx, 1)) <= n
       /\ Len(SectionBody(ctx, 2)) <= n
       /\ IsPrefixOfTexts(SectionBody(ctx, 1), req.profile.static)
       /\ IsPrefixOfTexts(SectionBody(ctx, 2), req.profile.dynamic)
       /\ (\E i \in titles : SectionRank(ctx[i].text) = 3) =>
            IsLinesOf(SectionBody(ctx, 3), req.project)
       /\ (\E i \in titles : SectionRank(ctx[i].text) = 4) =>
            IsLinesOf(SectionBody(ctx, 4), req.user)

\* Three facts in each profile list under a cap of two, and two different
\* memory results in each memory list: four sections of two lines each.
C27_Witness ==
  /\ phase = "done" /\ req.op = "compose"
  /\ req.config.maxProfileItems = 2
  /\ Len(req.profile.static) = 3 /\ Len(req.profile.dynamic) = 3
  /\ Len(req.project) = 2 /\ req.project[1] # req.project[2]
  /\ Len(req.user) = 2 /\ req.user[1] # req.user[2]
  /\ Len(out.context) = 13
  /\ Cardinality(TitlePositions(out.context)) = 4

\* ------------------------------------------- response framing (under PureSpec)
\* The JSON-RPC response frame of the response at hand: the document of a
\* JSON body, the first data line holding a response frame for a stream (0:
\* the stream has none), and what that frame is.
RECURSIVE FirstFrameFrom(_, _)
FirstFrameFrom(lines, i) ==
  IF i > Len(lines) THEN 0
  ELSE IF lines[i].field = "data" /\ lines[i].payload \in {"result", "error"}
       THEN i
       ELSE FirstFrameFrom(lines, i + 1)

IsStream == req.contentType = "text/event-stream"
FirstFrame == IF IsStream THEN FirstFrameFrom(req.body, 1) ELSE 0
FrameKind ==
  IF ~IsStream THEN req.body
  ELSE IF FirstFrame = 0 THEN "none" ELSE req.body[FirstFrame].payload

\* C24: a response whose JSON-RPC frame carries an error makes the
\* operation return {success: false} with the error's message, for a JSON
\* document and for an event stream alike.
C24_Original ==
  (phase = "done" /\ req.op = "respond" /\ FrameKind = "error") =>
    /\ ~out.success
    /\ out.error = "MCP Error: message"

\* C25: for an event stream the result is read from the first data line
\* that holds a JSON-RPC response frame, the lines before it being skipped,
\* and a stream with no such frame makes the operation fail.
C25_Original ==
  (phase = "done" /\ req.op = "respond" /\ IsStream) =>
    IF FirstFrame = 0 THEN ~out.success
    ELSE FrameKind = "result" => (out.success /\ out.line = FirstFrame)

\* ------------------------------------------- scopes and group ids
\* The scope an operation works on, when it works on one: the scope asked
\* for (project when none is), user for the profile.
ScopeOfReq ==
  CASE req.op \in ScopedModes -> ScopeOrProject(req.scope)
    [] req.op = "profile" -> "user"
    [] req.op \in {"search", "searchMemories", "searchNodes"} -> req.scope
    [] OTHER -> NoScope

\* The group a backend call addresses.
CallGroup(c) == c[1]

\* The group id resolved for scope g when process n started.
ResolvedAt(n, g) == resolved[IF g = "user" THEN 2 * n - 1 ELSE 2 * n].id

GroupsSent == {CallGroup(c) : c \in calls}

\* C39: add, list, graph and the search on one scope send the user group
\* id alone when the scope is user and the project group id alone when the
\* scope is project or, for add, list and graph, omitted; the other scope's
\* group id is never sent.
C39_ScopeIsolation ==
  (/\ phase = "done"
   /\ \/ req.op \in {"add", "list", "graph"}
      \/ req.op = "search" /\ req.scope \in Scopes) =>
    IF req.scope = "user" THEN "project" \notin GroupsSent /\ GroupsSent \subseteq {"user"}
    ELSE "user" \notin GroupsSent /\ GroupsSent \subseteq {"project"}

\* A graph exploration without a scope reached the backend on the project
\* group alone, while the user group holds a fact.
C39_Witness ==
  /\ phase = "done" /\ req.op = "graph" /\ req.scope = NoScope /\ req.given
  /\ isConfigured(mcpUrl)
  /\ facts["user"] # <<>>
  /\ calls = {<<"project", "facts">>}

\* C40 as stated: a forget with scope S (project when omitted) removes a
\* memory only from the group of S, and says "removed from S scope" only
\* of a memory that was in that group.
C40_Original ==
  (phase = "done" /\ req.op = "forget" /\ out.success) =>
    out.removedFrom = out.scope

\* ------------------------------------------- chat.message over failures
\* The three branches of the Promise.all in chat.message.
Branches == {"profile", "user", "project"}

BranchScope(b) == IF b = "project" THEN "project" ELSE "user"

\* The backend calls a branch makes.
BranchCalls(b) ==
  IF b = "profile" THEN ProfileCalls(transport, "user")
  ELSE MemoryCalls(transport, BranchScope(b))

BranchFailed(b) == BranchCalls(b) \subseteq down
BranchSucceeded(b) == BranchCalls(b) \cap down = {}

BranchOn(cfg, b) ==
  CASE b = "profile" -> cfg.injectProfile
    [] b = "user" -> cfg.injectRelevantMemories
    [] b = "project" -> cfg.injectProjectMemories

BranchTitles(b) ==
  CASE b = "profile" -> {"User Preferences (stable):", "Recent Context (dynamic):"}
    [] b = "user" -> {"Relevant Memories:"}
    [] b = "project" -> {"Project Knowledge (entities & facts):"}

NodeTextsOf(s) == {nodes[s][i].name : i \in DOMAIN nodes[s]}
FactTextsOf(s) == {facts[s][i].fact : i \in DOMAIN facts[s]}
ValidFactTextsOf(s) ==
  {facts[s][i].fact : i \in DOMAIN facts[s] \ InvalidFactsOf(s)}

\* What the backend holds for a branch: the texts its calls return and the
\* branch keeps.
BranchItems(b) ==
  CASE b = "profile" /\ transport = "mcp" -> NodeTextsOf("user")
    [] b = "profile" /\ transport = "rest" -> FactTextsOf("user")
    [] b # "profile" /\ transport = "mcp" ->
         NodeTextsOf(BranchScope(b)) \cup ValidFactTextsOf(BranchScope(b))
    [] b # "profile" /\ transport = "rest" -> ValidFactTextsOf(BranchScope(b))

\* The texts of the lines of a context that belong to a branch, and whether
\* the context holds a section of the branch.
BranchLines(ctx, b) ==
  {ctx[i].text : i \in {j \in DOMAIN ctx :
     /\ ctx[j].kind = (IF b = "profile" THEN "profile" ELSE "memory")
     /\ ctx[j].text \in NodeTextsOf(BranchScope(b)) \cup FactTextsOf(BranchScope(b))}}

HasSection(ctx, b) ==
  \E i \in DOMAIN ctx : ctx[i].kind = "title" /\ ctx[i].text \in BranchTitles(b)

\* C19: chat.message completes for every combination of backend outcomes:
\* a branch all of whose calls failed gives the composer an empty input (no
\* section, no line of it), a branch whose calls succeeded has everything
\* the backend holds for it in the context when its section is enabled,
\* and the context is injected exactly when some section is present.
C19_ChatFailSoft ==
  (phase = "done" /\ req.op = "chat" /\ isConfigured(mcpUrl)) =>
    /\ \A b \in Branches :
         /\ BranchFailed(b) =>
              ~HasSection(out.context, b) /\ BranchLines(out.context, b) = {}
         /\ (BranchSucceeded(b) /\ BranchOn(req.config, b)) =>
              BranchLines(out.context, b) = BranchItems(b)
    /\ out.parts = (IF \E b \in Branches : HasSection(out.context, b)
                    THEN <<"context">> ELSE <<>>)

\* Every call of the project branch failed although the backend holds
\* project memory, the user calls succeeded: the user memories are injected
\* without a project section.
C19_Witness ==
  /\ phase = "done" /\ req.op = "chat" /\ isConfigured(mcpUrl)
  /\ \A b \in Branches : BranchOn(req.config, b)
  /\ BranchFailed("project") /\ ValidFactTextsOf("project") # {}
  /\ BranchSucceeded("user") /\ BranchItems("user") # {}
  /\ BranchLines(out.context, "user") = BranchItems("user")
  /\ out.parts = <<"context">>

\* ------------------------------------------- chat claims (under ChatSpec)
\* The events of session sid whose parts hold a context part, and those for
\* which the context was retrieved.
Injected(sid) ==
  {e \in Events : /\ ev[e].session = sid
                  /\ \E i \in DOMAIN ev[e].parts : ev[e].parts[i] = "context"}

Retrieved(sid) == {e \in Events : ev[e].session = sid /\ ev[e].retrieved}

\* C18: for each session, context is retrieved for at most one chat.message
\* event and at most one context part is injected, under every interleaving
\* of events, overlapping events of one session included.
C18_OncePerSession ==
  \A sid \in Sessions :
    /\ Cardinality(Retrieved(sid)) <= 1
    /\ Cardinality(Injected(sid)) <= 1
    /\ Injected(sid) \subseteq Retrieved(sid)

\* A second event of a session was handled while the first was still inside
\* its Promise.all; the first then injected its context.
C18_Witness ==
  \E e1, e2 \in Events :
    /\ e1 < e2
    /\ ev[e1].session = ev[e2].session
    /\ ev[e1].pc = "done" /\ e1 \in Injected(ev[e1].session)
    /\ ev[e2].pc = "done" /\ ev[e2].msg = "plain" /\ ev[e2].parts = <<"text">>
    /\ \E e3 \in Events : ev[e3].pc = "awaiting" /\ ev[e3].session # ev[e1].session

\* ------------------------------------------- normaliser claims
\* C28 as stated: in the output of searchMemories every node result has
\* similarity 0.9, every fact result has similarity 0.85, whichever the
\* transport, and no node result comes after a fact result.
C28_Original ==
  (phase = "done" /\ req.op = "searchMemories") =>
    LET rs == out.results
    IN /\ \A i \in DOMAIN rs :
            /\ rs[i].type = "node" => rs[i].similarity = SimNode
            /\ rs[i].type = "fact" => rs[i].similarity = SimFact
       /\ \A i, j \in DOMAIN rs :
            (rs[i].type = "node" /\ rs[j].type = "fact") => i < j

\* C29 as stated: every result of searchMemories has a non-empty id and a
\* similarity that is absent or within [0, 1], whatever the backend
\* answered, a missing or empty uuid included.
C29_Original ==
  (phase = "done" /\ req.op = "normalise") =>
    \A i \in DOMAIN out.results :
      /\ out.results[i].id \notin {Null, ""}
      /\ \/ out.results[i].similarity = SimNull
         \/ out.results[i].similarity \in 0..100

\* Number of entries of a relationship list that carry the given id.
Occurrences(list, id) == Cardinality({i \in DOMAIN list : list[i].id = id})

\* C30: the graph mode partitions the facts returned: each fact is in
\* exactly one of the valid and superseded lists, in valid exactly when its
\* invalid_at is unset, and the sizes of the two lists sum to the number of
\* facts returned.
C30_Partition ==
  (phase = "done" /\ req.op = "partition") =>
    LET fs == req.facts
    IN /\ Len(out.valid) + Len(out.superseded) = Len(fs)
       /\ \A k \in DOMAIN fs :
            /\ Occurrences(out.valid, fs[k].uuid)
                 + Occurrences(out.superseded, fs[k].uuid) = 1
            /\ (Occurrences(out.valid, fs[k].uuid) = 1) <=> (fs[k].invalid_at = Null)

\* A valid fact and a superseded fact returned together: one in each list.
C30_Witness ==
  /\ phase = "done" /\ req.op = "partition"
  /\ Len(req.facts) = 2
  /\ req.facts[1].invalid_at = Null /\ req.facts[2].invalid_at # Null
  /\ Len(out.valid) = 1 /\ out.valid[1].id = req.facts[1].uuid
  /\ Len(out.superseded) = 1 /\ out.superseded[1].id = req.facts[2].uuid

\* Positions of the nodes whose label set includes Preference, and of the
\* others.
PreferenceAt(ns) ==
  {k \in DOMAIN ns : \E i \in DOMAIN ns[k].labels : ns[k].labels[i] = "Preference"}
OtherAt(ns) == DOMAIN ns \ PreferenceAt(ns)

\* The j-th smallest position of a set of positions.
NthOf(ps, j) == CHOOSE k \in ps : Cardinality({l \in ps : l <= k}) = j

\* The list holds the names of the nodes at the given positions, in their
\* order, cut to n entries.
IsFirstOf(list, ns, ps, n) ==
  /\ Len(list) = Min(n, Cardinality(ps))
  /\ \A j \in DOMAIN list : list[j] = ns[NthOf(ps, j)].name

\* C31: the stateful getProfile puts a returned node in the static list
\* iff its label set includes Preference and in the dynamic list
\* otherwise, never in both, keeps the order of the nodes in each list, and
\* cuts each list to at most maxProfileItems entries.
C31_Classification ==
  (phase = "done" /\ req.op = "classify") =>
    /\ IsFirstOf(out.static, req.nodes, PreferenceAt(req.nodes), req.cap)
    /\ IsFirstOf(out.dynamic, req.nodes, OtherAt(req.nodes), req.cap)
    /\ \A i \in DOMAIN out.static, j \in DOMAIN out.dynamic :
         out.static[i] # out.dynamic[j]
    /\ Len(out.static) <= req.cap /\ Len(out.dynamic) <= req.cap

\* Two nodes that include Preference, the first one after another label,
\* under a cap of one: the first node alone is static.
C31_Witness ==
  /\ phase = "done" /\ req.op = "classify" /\ req.cap = 1
  /\ Len(req.nodes) = 2
  /\ req.nodes[1].labels = <<"Requirement", "Preference">>
  /\ req.nodes[2].labels = <<"Preference">>
  /\ out.static = <<req.nodes[1].name>> /\ out.dynamic = <<>>

\* C32 as stated: on both transports addMemory sends a given source kind
\* unchanged, and sends the kind inferred from the content when none is
\* given.
C32_Original ==
  (phase = "done" /\ req.op = "addMemory") =>
    out.sent.source =
      (IF req.source # Null THEN req.source ELSE inferSource(req.content))

\* C37 as stated: searchMemories on one group and getProfile answer
\* {success: false} whenever a transport call they made has failed.
C37_Original ==
  (phase = "done" /\ req.op \in {"searchMemories", "profile"}
     /\ calls \cap down # {})
    => ~out.success

\* C38 as stated: REST clearGraph with a non-empty list of group ids
\* returns success exactly when the deletion of every listed group
\* succeeded.
C38_Original ==
  (phase = "done" /\ req.op = "clearGraph" /\ Len(req.groupIds) > 0) =>
    (out.success <=>
       \A i \in DOMAIN req.groupIds : req.groupIds[i] \notin req.failing)

\* ------------------------------------------- handshake claims (under Spec)
\* The last handshake started has failed and left the client without a
\* session token.
HandshakeFailed ==
  /\ sessionId = NoSession
  /\ initPromise # NoPromise
  /\ hs[initPromise] = "rejected"

\* C33 as stated: after a failed handshake attempt the client is not left
\* without a session for good: an operation that starts later issues a new
\* initialize request.
C33_Original ==
  [][\A p \in Callers :
       (transport = "mcp" /\ pc[p] = "idle" /\ pc'[p] # "idle" /\ HandshakeFailed)
         => ~NoNewInit]_vars

\* The step answers a tools/call of caller p with the session error.
Expired(p) ==
  /\ Len(att'[p]) = Len(att[p]) + 1
  /\ att'[p][Len(att'[p])] = "expired"

\* The session header of the last tools/call request of caller p.
LastTok(p) ==
  sent[CHOOSE i \in CallsBy(p) : \A j \in CallsBy(p) : j <= i].tok

\* C34 as stated: a session-expired answer to a request that carried an
\* older token leaves a newer session token in place.
C34_Original ==
  [][\A p \in Callers :
       (Expired(p) /\ sessionId # NoSession /\ LastTok(p) # sessionId)
         => sessionId' = sessionId]_vars

\* C34, amended: a session-expired answer clears the session state
\* whichever token the failing request carried, a newer token included, and
\* the caller starts a handshake of its own and awaits it.
C34_AlwaysClears ==
  [][\A p \in Callers :
       Expired(p) =>
         /\ sessionId' = NoSession
         /\ ~NoNewInit
         /\ initPromise' # initPromise
         /\ hs'[initPromise'] = "fetch"
         /\ waitOn'[p] = initPromise'
         /\ sent'[Len(sent')].method = "initialize"
         /\ sent'[Len(sent')].proc = p]_vars

\* One caller's session error has been answered by a new handshake whose
\* token is held, while the other caller's request, sent with the older
\* token, is still unanswered.
C34_Witness ==
  \E p, q \in Callers :
    /\ p # q
    /\ att[p] = <<"expired">>
    /\ pc[q] = "awaitCall"
    /\ sessionId # NoSession
    /\ LastTok(q) # NoSession
    /\ LastTok(q) < sessionId
    /\ Len(sent) < MaxRequests

\* C35 as stated: a tools/call request goes out only after the handshake
\* of its session has completed: the initialize request was answered and
\* the initialized notification delivered.
C35_Original ==
  [][(NewCall /\ sent'[Len(sent')].tok # NoSession)
       => hs[sent'[Len(sent')].tok] = "resolved"]_vars

\* The step answers a tools/call of caller p with a failure that is not a
\* session error: a non-2xx status other than a client error whose text
\* references the session, a JSON-RPC error, an unreadable body, a network
\* error or a timeout.
FailedAnswer(p) ==
  /\ Len(att'[p]) = Len(att[p]) + 1
  /\ att'[p][Len(att'[p])] = "failed"

\* C36: a tools/call that fails with anything but a session error is not
\* retried (no request follows it, the operation returns its failure) and
\* leaves the session token and the recorded handshake as they were.
C36_NoRetry ==
  [][\A p \in Callers :
       FailedAnswer(p) =>
         /\ sessionId' = sessionId
         /\ initPromise' = initPromise
         /\ hs' = hs
         /\ sent' = sent
         /\ requestId' = requestId
         /\ pc'[p] = "done"
         /\ res'[p] = "failure"]_vars

\* An operation ended in failure on its single tools/call while the
\* session of the completed handshake is still held.
C36_Witness ==
  \E p \in Callers :
    /\ pc[p] = "done" /\ res[p] = "failure"
    /\ att[p] = <<"failed">>
    /\ Cardinality(CallsBy(p)) = 1
    /\ sessionId # NoSession /\ initPromise = sessionId
    /\ hs[sessionId] = "resolved"
    /\ LastTok(p) = sessionId

\* ------------------------------------------- timeouts (under LiveSpec)
\* The server never answers the notifications/initialized request of
\* handshake h. That fetch is awaited without withTimeout, so the
\* initializeSession() run never settles.
NotifySilent(h) ==
  /\ hs[h] = "notify"
  /\ hs' = [hs EXCEPT ![h] = "hung"]
  /\ UNCHANGED <<transport, sessionId, initPromise, requestId, pc, tool,
                 waitOn, att, res, sent>>

\* The transport layer with a server that may stay silent. Silence on an
\* initialize or tools/call request is the outcome "timeout" of InitResponse
\* and CallResponse (withTimeout rejects after TIMEOUT_MS).
LiveNext ==
  \/ Next
  \/ \E h \in HsIds : NotifySilent(h) /\ UNCHANGED <<dvars, cvars>>

\* The event loop runs every callback that is ready, and every fetch other
\* than a silent one settles.
LiveSpec == Init /\ [][LiveNext]_vars /\ WF_vars(LiveNext)

\* C11: every request of the stateful client is bounded by the timeout, so
\* an operation that has started eventually returns (as long as the request
\* budget of the model is not used up), whichever request the server leaves
\* unanswered.
C11_Original ==
  \A p \in Callers :
    (pc[p] # "idle") ~> (pc[p] = "done" \/ Len(sent) = MaxRequests)

====
